---- MODULE Spec2Model ----
(***************************************************************************)
(* Model of the FreeCAD LLM agent: the iteration controller                *)
(* (freecad_llm_agent/pipeline.py, DesignAgent.run) and the execution      *)
(* engine (freecad_llm_agent/freecad_runner.py, FreeCADEngine.run_script). *)
(*                                                                         *)
(* Strings are sequences of tokens, so that Python's substring test        *)
(* (`marker in text`) is a contiguous-subsequence test; a list of lines is *)
(* a sequence of such strings; the token "\n" is the line break.           *)
(***************************************************************************)
EXTENDS Integers, Sequences, FiniteSets, TLC

\* Largest config.pipeline.max_iterations explored with every execution
\* strategy (Spec).
MaxIter == 2

\* Largest config.pipeline.max_iterations explored with the simulation
\* strategy alone (SpecLong).
LongIter == 4

\* limit of DesignAgent._tail_lines.
TailLimit == 40

VARIABLES
    config,                   \* AppConfig: pipeline and renderer sections
    requirement,              \* the requirement text handed to run
    embedded_runner,          \* FreeCADEngine._embedded_runner is not None
    executable,               \* FreeCADEngine._executable is not None
    files,                    \* workspace: path -> Optional file content
    cancelled,                \* what is_cancelled() returns when called now
    pc,                       \* position of DesignAgent.run
    iteration,                \* loop variable of run
    errors,                   \* run's running error list
    pending_additional_views, \* run's sticky flag
    script_history,           \* run's script history
    artifacts,                \* report.artifacts
    script,                   \* local `script` of the current iteration
    execution,                \* local `execution` of the current iteration
    renders,                  \* local `renders` of the current iteration
    raised,                   \* the calls that ended by raising an exception
    contexts,                 \* every ScriptGenerationContext given to generate
    results,                  \* every ScriptExecutionResult run_script returned
    reviews,                  \* every RenderReview _review_renders returned
    calls,                    \* every collaborator call, in call order
    strategies,               \* the strategy each run_script call dispatched to
    invocations,              \* every subprocess.run call and what it did
    document,                 \* the host session's project document
    gui,                      \* FreeCADGui is not None
    qt_executor,              \* _EmbeddedFreeCADRuntime._qt_executor is not None
    caller_thread,            \* the thread run_script is called on
    executions,               \* every _execute_internal run and what it did
    requests,                 \* queued _execute_requested emissions, for the main thread
    posted,                   \* queued _finished emissions, for the calling thread
    loop,                     \* the QEventLoop of _QtMainThreadExecutor.execute
    result_container,         \* result_container of _QtMainThreadExecutor.execute
    connected,                \* _handle is connected to _finished
    assembly_required,        \* run's local assembly_required
    environment,              \* what the engine's constructor found around it
    completions,              \* the HTTP chat client's finished complete() calls
    application,              \* the host's documents: FreeCAD / FreeCADGui module state
    responses,                \* what complete returned to each review that asked it
    dock,                     \* AgentDockWidget: its buttons and worker fields
    workers,                  \* every worker/thread pair the dock has started
    main_events               \* slot invocations queued for the main thread

\* The host session as the engine was constructed in it.
\* The dock widget and the Qt objects it has created.
dockVars == << dock, workers, main_events >>

sessionVars == << gui, qt_executor, caller_thread, environment, completions,
                 responses, dockVars >>

\* The handoff between the calling thread and the main thread.
bridgeVars == << requests, posted, loop, result_container, connected >>

\* The engine's surroundings and the history its calls leave behind.
hostVars == << strategies, invocations, document, executions, application,
              sessionVars, bridgeVars >>

vars == << config, requirement, embedded_runner, executable, files, cancelled,
           pc, iteration, errors, pending_additional_views, script_history,
           artifacts, script, execution, renders, raised, contexts,
           results, reviews, calls, strategies, invocations, document, gui,
           qt_executor, caller_thread, executions, requests, posted, loop,
           result_container, connected, assembly_required, environment,
           completions, application, responses, dock, workers, main_events >>

-----------------------------------------------------------------------------
(* Optional[...] values and string helpers *)

None == [some |-> FALSE, val |-> <<>>]

Some(v) == [some |-> TRUE, val |-> v]

\* Python truthiness of an Optional[str] / of a list.
Truthy(opt) == opt.some /\ opt.val # <<>>

\* `marker in text` for strings.
IsSubstring(marker, text) ==
    \E i \in 0..(Len(text) - Len(marker)) :
        SubSeq(text, i + 1, i + Len(marker)) = marker

RECURSIVE Join(_)
\* "\n".join(lines), joined by halves
Join(lines) ==
    IF lines = <<>> THEN <<>>
    ELSE IF Len(lines) = 1 THEN lines[1]
    ELSE LET half == Len(lines) \div 2
         IN  Join(SubSeq(lines, 1, half)) \o <<"\n">>
             \o Join(SubSeq(lines, half + 1, Len(lines)))

\* The position that ends the line of `text` starting at `start`: its first
\* line break, or the position after the last token.
LineEnd(text, start) ==
    IF \E i \in start..Len(text) : text[i] = "\n"
    THEN CHOOSE i \in start..Len(text) :
             /\ text[i] = "\n"
             /\ \A j \in start..(i - 1) : text[j] # "\n"
    ELSE Len(text) + 1

RECURSIVE LinesFrom(_, _)
\* The lines of `text` from position `start` on, line by line.  A trailing
\* line break opens no further line.
LinesFrom(text, start) ==
    IF start > Len(text) THEN <<>>
    ELSE << SubSeq(text, start, LineEnd(text, start) - 1) >>
         \o LinesFrom(text, LineEnd(text, start) + 1)

\* str.splitlines()
splitlines(text) == LinesFrom(text, 1)

\* freecad_runner._split_lines
split_lines(data) == IF ~Truthy(data) THEN <<>> ELSE splitlines(data.val)

\* The integer i as a token.
Num(i) == ToString(i)

-----------------------------------------------------------------------------
(* Workspace paths *)

\* workspace / f"iteration_{iteration}.py"
ScriptPath(i) == [name |-> "iteration_" \o Num(i), suffix |-> ".py"]

\* script_path.with_suffix(".log")
with_suffix(path, suffix) == [path EXCEPT !.suffix = suffix]

\* script_path.name
PathName(path) == path.name \o path.suffix

\* The script and log files run_script can touch.
Paths == { [name |-> "iteration_" \o Num(i), suffix |-> s] :
             i \in 1..(IF MaxIter > LongIter THEN MaxIter ELSE LongIter),
             s \in {".py", ".log"} }

\* Path.read_text(): universal newlines turn every line ending into "\n".
read_text(content) ==
    [i \in 1..Len(content) |->
        IF content[i] \in {"\r\n", "\r"} THEN "\n" ELSE content[i]]

-----------------------------------------------------------------------------
(* freecad_runner.py: the execution engine *)

ScriptExecutionResult(success, script_path, output_log, error, affected_objects) ==
    [success |-> success, script_path |-> script_path, output_log |-> output_log,
     error |-> error, affected_objects |-> affected_objects]

\* The result `execution` holds before run_script has returned one.
NoExecution == ScriptExecutionResult(FALSE, ScriptPath(0), <<>>, None, <<>>)

RaiseSentinel == <<"raise">>

\* simulate_execution as it would be if it never looked for the sentinel.
simulate_execution_ignores_sentinel(script_body, script_path) ==
    ScriptExecutionResult(TRUE, script_path,
        << <<"[simulated]", "Running", "FreeCAD", "macro", PathName(script_path)>>,
           <<"[simulated]", "FreeCAD", "started", "in", "headless", "mode">>,
           <<"[simulated]", "FreeCAD", "finished", "successfully">> >>,
        None, <<>>)

simulate_execution(script_body, script_path) ==
    LET output_log ==
            << <<"[simulated]", "Running", "FreeCAD", "macro", PathName(script_path)>>,
               <<"[simulated]", "FreeCAD", "started", "in", "headless", "mode">> >>
    IN  IF IsSubstring(RaiseSentinel, script_body)
        THEN ScriptExecutionResult(FALSE, script_path, output_log,
                 Some(<<"Script", "contains", "explicit", "raise", "statement">>), <<>>)
        ELSE ScriptExecutionResult(TRUE, script_path,
                 Append(output_log,
                        <<"[simulated]", "FreeCAD", "finished", "successfully">>),
                 None, <<>>)

TracebackMarker == <<"Traceback">>

\* The generic markers of _scan_for_errors, in the order the code tries them:
\* "[ERR]", "Error:", "RuntimeError", "Exception".
ErrorMarkers ==
    << <<"[ERR]">>, <<"Error", ":">>, <<"Runtime", "Error">>, <<"Exception">> >>

\* scan_for_errors as it would be if the generic markers were tried before
\* the traceback marker.
scan_for_errors_generic_first(log_lines) ==
    LET joined == Join(log_lines)
        hits == { k \in 1..Len(ErrorMarkers) : IsSubstring(ErrorMarkers[k], joined) }
        first == CHOOSE k \in hits : \A j \in hits : k <= j
    IN  IF hits # {}
        THEN Some(<<"Detected", "error", "marker", "'">> \o ErrorMarkers[first]
                  \o <<"'", "in", "FreeCAD", "log">>)
        ELSE IF IsSubstring(TracebackMarker, joined)
        THEN Some(<<"FreeCAD", "reported", "a", "traceback">>)
        ELSE None

scan_for_errors(log_lines) ==
    LET joined == Join(log_lines)
        hits == { k \in 1..Len(ErrorMarkers) : IsSubstring(ErrorMarkers[k], joined) }
        first == CHOOSE k \in hits : \A j \in hits : k <= j
    IN  IF IsSubstring(TracebackMarker, joined)
        THEN Some(<<"FreeCAD", "reported", "a", "traceback">>)
        ELSE IF hits # {}
        THEN Some(<<"Detected", "error", "marker", "'">> \o ErrorMarkers[first]
                  \o <<"'", "in", "FreeCAD", "log">>)
        ELSE None

\* What subprocess.run does for one call: it raises TimeoutExpired or
\* FileNotFoundError, or the process completes with an exit code, its two
\* captured streams, and possibly a log file written at the -l path.
ProcessRun(kind, returncode, stdout, stderr, logfile) ==
    [kind |-> kind, returncode |-> returncode, stdout |-> stdout,
     stderr |-> stderr, logfile |-> logfile]

\* The workspace after the process of `run` has ended.
FilesAfterProcess(fs, log_path, run) ==
    IF run.kind # "notfound" /\ run.logfile.some
    THEN [fs EXCEPT ![log_path] = run.logfile]
    ELSE fs

\* completion_error as it would be if the exit code were not looked at.
completion_error_scan_only(returncode, output_log) == scan_for_errors(output_log)

\* The error _run_with_freecad finds for a process that has completed.
completion_error(returncode, output_log) ==
    IF returncode # 0
    THEN Some(<<"FreeCAD", "exited", "with", "code", Num(returncode)>>)
    ELSE scan_for_errors(output_log)

\* executable_after as it would be if every exception of subprocess.run
\* dropped the executable.
executable_after_dropped_on_exception(kind) == kind = "completed"

\* executable_after as it would be if the executable were never dropped.
executable_after_never_dropped(kind) == TRUE

\* Whether self._executable is still set when _run_with_freecad returns: only
\* the FileNotFoundError handler clears it.
executable_after(kind) == kind # "notfound"

\* _run_with_freecad: the result, whether the cached executable is kept, and
\* the workspace it leaves.
run_with_freecad(script_path, fs, run) ==
    LET log_path == with_suffix(script_path, ".log")
        after == FilesAfterProcess(fs, log_path, run)
        merged == split_lines(run.stdout) \o split_lines(run.stderr)
        output_log == IF after[log_path].some
                      THEN merged \o splitlines(read_text(after[log_path].val))
                      ELSE merged
        error == completion_error(run.returncode, output_log)
    IN  CASE run.kind = "timeout" ->
               [result |-> ScriptExecutionResult(FALSE, script_path,
                               << <<"FreeCAD", "execution", "timed", "out">> >>,
                               Some(<<"Execution", "timed", "out">>), <<>>),
                executable |-> executable_after(run.kind), files |-> after]
          [] run.kind = "notfound" ->
               [result |-> simulate_execution(read_text(fs[script_path].val), script_path),
                executable |-> executable_after(run.kind), files |-> fs]
          [] OTHER ->
               [result |-> ScriptExecutionResult(~error.some, script_path,
                               output_log, error, <<>>),
                executable |-> executable_after(run.kind), files |-> after]

\* A document object: its Name, never empty, and its Label, "" when it has
\* none.
Obj(name, label) == [Name |-> name, Label |-> label]

NoObject == [some |-> FALSE, val |-> Obj("", "")]

\* The session's project document: whether it is FreeCAD.ActiveDocument, its
\* Objects in document order, and its ActiveObject.
Document(is_active, objects, active_object) ==
    [is_active |-> is_active, objects |-> objects, active_object |-> active_object]

\* `label or name`
label_or_name(obj) == IF obj.Label # "" THEN obj.Label ELSE obj.Name

\* The keys of a captured dict.
Names(captured) == { captured[k].name : k \in 1..Len(captured) }

\* _capture_document_objects: the dict name -> label, in insertion order;
\* empty without an active document; the active object is added when its name
\* is not a key yet.
capture_document_objects(doc) ==
    LET objects == [k \in 1..Len(doc.objects) |->
                       [name |-> doc.objects[k].Name,
                        label |-> label_or_name(doc.objects[k])]]
    IN  IF ~doc.is_active THEN <<>>
        ELSE IF doc.active_object.some /\ doc.active_object.val.Name \notin Names(objects)
        THEN Append(objects, [name |-> doc.active_object.val.Name,
                              label |-> label_or_name(doc.active_object.val)])
        ELSE objects

\* calculate_affected_objects as it would be if the active object were
\* reported whenever there is one.
calculate_affected_objects_active_first(before, doc) ==
    IF doc.is_active /\ doc.active_object.some
    THEN << label_or_name(doc.active_object.val) >>
    ELSE <<>>

\* _calculate_affected_objects
calculate_affected_objects(before, doc) ==
    LET after == capture_document_objects(doc)
        new_objects == SelectSeq(after, LAMBDA entry : entry.name \notin Names(before))
    IN  IF new_objects # <<>>
        THEN [k \in 1..Len(new_objects) |-> new_objects[k].label]
        ELSE IF doc.is_active /\ doc.active_object.some
        THEN << label_or_name(doc.active_object.val) >>
        ELSE <<>>

\* _ensure_project_document: the active document is kept; without one the
\* session's project document (the GUI's, the registered one, or a new one)
\* becomes the active document.
ensure_project_document(doc) == [doc EXCEPT !.is_active = TRUE]

NoName == [some |-> FALSE, val |-> ""]

Named(name) == [some |-> TRUE, val |-> name]

\* _EmbeddedFreeCADRuntime.__init__: self._project_doc_name
ProjectDocName == "LLMAgentProject"

\* The host's documents as the runtime sees them: the name of
\* FreeCAD.ActiveDocument, the name of FreeCADGui.ActiveDocument.Document,
\* the names FreeCAD.getDocument answers, the runtime's _project_doc_name,
\* and the names passed so far to setActiveDocument and to newDocument.
Application(active, gui_document, documents) ==
    [ActiveDocument |-> active, gui_document |-> gui_document,
     documents |-> documents, project_doc_name |-> ProjectDocName,
     set_active |-> <<>>, new_documents |-> <<>>]

\* _document_from_gui
document_from_gui(app, has_gui) ==
    IF has_gui THEN app.gui_document ELSE NoName

\* _get_existing_document: getDocument raises for an unknown name
get_existing_document(app) ==
    IF app.project_doc_name \in app.documents THEN Named(app.project_doc_name) ELSE NoName

found_document_gui_first(app, has_gui) ==
    IF document_from_gui(app, has_gui).some THEN document_from_gui(app, has_gui)
    ELSE IF app.ActiveDocument.some THEN app.ActiveDocument
    ELSE get_existing_document(app)

\* The document _ensure_project_document finds without creating one.
found_document(app, has_gui) ==
    IF app.ActiveDocument.some THEN app.ActiveDocument
    ELSE IF document_from_gui(app, has_gui).some THEN document_from_gui(app, has_gui)
    ELSE get_existing_document(app)

\* _ensure_project_document and _activate_gui_document on the host's
\* documents: the found document, or one created under the project name,
\* becomes the active document of FreeCAD and of the GUI.
ensured_application(app, has_gui) ==
    LET found == found_document(app, has_gui)
        name == IF found.some THEN found.val ELSE app.project_doc_name
    IN  [ActiveDocument |-> Named(name),
         gui_document |-> IF has_gui THEN Named(name) ELSE app.gui_document,
         documents |-> app.documents \cup {name},
         project_doc_name |-> name,
         set_active |-> Append(app.set_active, name),
         new_documents |-> IF found.some THEN app.new_documents
                           ELSE Append(app.new_documents, app.project_doc_name)]

\* What exec(compiled, namespace) does for one script: it returns ("ok"),
\* raises an Exception ("exception"), or raises a BaseException that is no
\* Exception, such as SystemExit ("exit").  `stdout` is what the script
\* printed, `objects` the objects it added to the active document before it
\* ended.
ScriptRun(kind, stdout, exc_type, message, objects) ==
    [kind |-> kind, stdout |-> stdout, exc_type |-> exc_type,
     message |-> message, objects |-> objects]

\* The document after the script of `run`: the objects whose names are not
\* taken yet are added, and the last of them is the active object.
apply_script(doc, run) ==
    LET taken == { doc.objects[k].Name : k \in 1..Len(doc.objects) }
        added == SelectSeq(run.objects, LAMBDA obj : obj.Name \notin taken)
    IN  IF added = <<>> THEN doc
        ELSE [doc EXCEPT !.objects = doc.objects \o added,
                         !.active_object = [some |-> TRUE, val |-> added[Len(added)]]]

\* traceback.format_exc().splitlines()
\* format_exc as it would be if only the exception's own line were kept.
format_exc_last_line_only(script_path, run) ==
    << run.exc_type \o (IF run.message = <<>> THEN <<>> ELSE <<":">> \o run.message) >>

\* traceback.format_exc().splitlines() for an exception raised by the macro.
format_exc(script_path, run) ==
    << <<"Traceback", "(most", "recent", "call", "last):">>,
       <<"File", PathName(script_path), "line", "1">>,
       run.exc_type \o (IF run.message = <<>> THEN <<>> ELSE <<":">> \o run.message) >>

\* The refresh calls that can raise; "none" when none does.
RefreshFailures == {"none", "fitAll", "updateGui"}

\* _refresh_gui_view: the calls it makes, in order, when the call `failure`
\* raises.  An exception of fitAll skips update, one of updateGui skips the
\* ViewFit message; all of them are swallowed.
refresh_gui_view(doc, has_gui, failure) ==
    (IF doc.is_active THEN <<"recompute">> ELSE <<>>)
    \o (IF ~has_gui THEN <<>>
        ELSE <<"fitAll">>
             \o (IF failure = "fitAll" THEN <<>> ELSE <<"update">>)
             \o <<"updateGui">>
             \o (IF failure = "updateGui" THEN <<>> ELSE <<"ViewFit">>))

\* refresh_escapes as it would be without the try blocks of
\* _refresh_gui_view.
refresh_escapes_unguarded(failure) == failure # "none"

\* Whether an exception of a host call leaves _refresh_gui_view: each call
\* sits in a try block that swallows Exception.
refresh_escapes(failure) == FALSE

\* The calls _execute_internal makes after exec has returned or raised.
calls_after_exec(kind, doc, has_gui, failure) ==
    IF kind = "ok" THEN refresh_gui_view(doc, has_gui, failure) ELSE <<>>

\* _EmbeddedFreeCADRuntime._execute_internal: the result (none when the
\* script leaves it by a BaseException), the document it leaves, the dict
\* captured before the script, and the host calls made after exec.
execute_internal(script_body, script_path, run, doc, has_gui, failure) ==
    LET before_objects == capture_document_objects(doc)
        after == apply_script(ensure_project_document(doc), run)
        affected == calculate_affected_objects(before_objects, after)
    IN  [returned |-> run.kind # "exit",
         run |-> run,
         result |-> CASE run.kind = "ok" /\ ~refresh_escapes(failure) ->
                           ScriptExecutionResult(TRUE, script_path,
                               split_lines(Some(run.stdout)), None, affected)
                      [] run.kind = "ok" ->
                           ScriptExecutionResult(FALSE, script_path,
                               split_lines(Some(run.stdout))
                                   \o << <<"Traceback", "(most", "recent", "call", "last):">>,
                                         <<failure, "failed">> >>,
                               Some(<<failure, "failed">>), affected)
                      [] run.kind = "exception" ->
                           ScriptExecutionResult(FALSE, script_path,
                               split_lines(Some(run.stdout)) \o format_exc(script_path, run),
                               Some(run.message), affected)
                      [] OTHER -> NoExecution,
         document |-> after,
         before |-> before_objects,
         calls |-> calls_after_exec(run.kind, after, has_gui, failure)]

-----------------------------------------------------------------------------
(* rendering.py: the renderer *)

\* Renderer.render: one RenderResult per configured view, in order, at
\* image_dir / f"{iteration:02d}_{view}.png".
render(views, i) ==
    [k \in 1..Len(views) |->
        [view |-> views[k],
         image_path |-> (IF i < 10 THEN "0" ELSE "") \o Num(i) \o "_" \o views[k] \o ".png"]]

-----------------------------------------------------------------------------
(* pipeline.py: planning, review and feedback *)

UpperTokens ==
    <<"A", "S", "E", "M", "B", "L", "Y", "Additional", "Extra", "View",
      "I", "RU_S", "RU_B", "RU_O", "RU_R", "RU_K">>

LowerTokens ==
    <<"a", "s", "e", "m", "b", "l", "y", "additional", "extra", "view",
      "i", "ru_s", "ru_b", "ru_o", "ru_r", "ru_k">>

\* str.lower()
lower(text) ==
    [i \in 1..Len(text) |->
        IF \E k \in 1..Len(UpperTokens) : UpperTokens[k] = text[i]
        THEN LowerTokens[CHOOSE k \in 1..Len(UpperTokens) : UpperTokens[k] = text[i]]
        ELSE text[i]]

Whitespace == {" ", "\n", "\r\n", "\r", "\t"}

\* str.strip()
strip(text) ==
    LET keep == { i \in 1..Len(text) : text[i] \notin Whitespace }
    IN  IF keep = {} THEN <<>>
        ELSE SubSeq(text, CHOOSE i \in keep : \A j \in keep : i <= j,
                          CHOOSE i \in keep : \A j \in keep : j <= i)

\* The keywords of _require_assembly, spelled letter by letter: "assembly",
\* "assemblies" and the Russian stem (its five Cyrillic letters are the
\* tokens "ru_s", "ru_b", "ru_o", "ru_r", "ru_k").
AssemblyKeywords ==
    { <<"a", "s", "s", "e", "m", "b", "l", "y">>,
      <<"a", "s", "s", "e", "m", "b", "l", "i", "e", "s">>,
      <<"ru_s", "ru_b", "ru_o", "ru_r", "ru_k">> }

\* require_assembly as it would be if the requirement were matched as it is
\* written.
require_assembly_case_sensitive(req) ==
    \E keyword \in AssemblyKeywords : IsSubstring(keyword, req)

\* DesignAgent._require_assembly
require_assembly(req) ==
    \E keyword \in AssemblyKeywords : IsSubstring(keyword, lower(req))

RenderReview(feedback, needs_additional_views) ==
    [feedback |-> feedback, needs_additional_views |-> needs_additional_views]

\* bool(value) for the JSON values the model distinguishes.
PyBool(value) == value \in {"true", "string"}

\* The review _parse_render_response builds from the raw text when
\* json.loads raises JSONDecodeError: the keyword scan and the trimmed text.
keyword_review(raw) ==
    RenderReview(
        IF strip(raw) # <<>> THEN strip(raw)
        ELSE <<"Render", "review", "response", "received">>,
        \/ IsSubstring(<<"additional">>, lower(raw))
        \/ IsSubstring(<<"extra", " ", "view">>, lower(raw)))

\* DesignAgent._parse_render_response.  A response is text that json.loads
\* turns into an object ("object": its two fields are given), text that
\* json.loads turns into something else ("nonobject": data.get raises
\* AttributeError, which is no JSONDecodeError), or text that is no JSON
\* ("text").  The result says whether the call raised.
parse_render_response(response) ==
    CASE response.kind = "object" ->
           [raised |-> FALSE, exc |-> <<>>,
            review |-> RenderReview(
                IF Truthy(response.feedback) THEN response.feedback.val
                ELSE <<"LLM", "render", "review", "complete">>,
                PyBool(response.needs))]
      [] response.kind = "nonobject" ->
           [raised |-> TRUE,
            exc |-> <<"object", "has", "no", "attribute", "'get'">>,
            review |-> RenderReview(<<>>, FALSE)]
      [] OTHER ->
           [raised |-> FALSE, exc |-> <<>>, review |-> keyword_review(response.raw)]

\* review_renders as it would be if the collaborator were asked without
\* renders too.
review_renders_asks_without_renders(rs, completion) ==
    IF completion.raised
    THEN RenderReview(<<"Render", "review", "failed:">> \o completion.exc, FALSE)
    ELSE IF parse_render_response(completion.response).raised
    THEN RenderReview(<<"Render", "review", "failed:">>
                      \o parse_render_response(completion.response).exc, FALSE)
    ELSE parse_render_response(completion.response).review

\* review_renders as it would be if a failed review asked for more views.
review_renders_failure_asks_views(rs, completion) ==
    IF rs = <<>> THEN RenderReview(<<"Rendering", "disabled">>, FALSE)
    ELSE IF completion.raised
    THEN RenderReview(<<"Render", "review", "failed:">> \o completion.exc, TRUE)
    ELSE IF parse_render_response(completion.response).raised
    THEN RenderReview(<<"Render", "review", "failed:">>
                      \o parse_render_response(completion.response).exc, TRUE)
    ELSE parse_render_response(completion.response).review

\* DesignAgent._review_renders.  `completion` is what self._llm.complete does
\* when it is called: it raises (message `exc`) or returns `response`.
review_renders(rs, completion) ==
    IF rs = <<>> THEN RenderReview(<<"Rendering", "disabled">>, FALSE)
    ELSE IF completion.raised
    THEN RenderReview(<<"Render", "review", "failed:">> \o completion.exc, FALSE)
    ELSE IF parse_render_response(completion.response).raised
    THEN RenderReview(<<"Render", "review", "failed:">>
                      \o parse_render_response(completion.response).exc, FALSE)
    ELSE parse_render_response(completion.response).review

\* tail_lines as it would be if it kept the earliest lines.
tail_lines_earliest(log_lines, limit) ==
    IF Len(log_lines) <= limit THEN log_lines
    ELSE << <<"...", "truncated", Num(Len(log_lines) - limit), "earlier", "lines", "...">> >>
         \o SubSeq(log_lines, 1, limit)

\* DesignAgent._tail_lines
tail_lines(log_lines, limit) ==
    IF Len(log_lines) <= limit THEN log_lines
    ELSE << <<"...", "truncated", Num(Len(log_lines) - limit), "earlier", "lines", "...">> >>
         \o SubSeq(log_lines, Len(log_lines) - limit + 1, Len(log_lines))

\* feedback_lines as it would be if the error summary were left out.
feedback_lines_without_error(i, exe) ==
    << <<"Iteration", Num(i), "FreeCAD", "execution", "failed.">> >>
    \o (IF exe.output_log # <<>>
        THEN << <<"Recent", "FreeCAD", "output:">> >> \o tail_lines(exe.output_log, TailLimit)
        ELSE <<>>)
    \o (IF ~Truthy(exe.error) /\ exe.output_log = <<>>
        THEN << <<"No", "output", "was", "captured", "before", "the", "failure.">> >>
        ELSE <<>>)

\* The lines _format_execution_feedback joins.
feedback_lines(i, exe) ==
    << <<"Iteration", Num(i), "FreeCAD", "execution", "failed.">> >>
    \o (IF Truthy(exe.error) THEN << <<"Error", ":">> \o exe.error.val >> ELSE <<>>)
    \o (IF exe.output_log # <<>>
        THEN << <<"Recent", "FreeCAD", "output:">> >> \o tail_lines(exe.output_log, TailLimit)
        ELSE <<>>)
    \o (IF ~Truthy(exe.error) /\ exe.output_log = <<>>
        THEN << <<"No", "output", "was", "captured", "before", "the", "failure.">> >>
        ELSE <<>>)

\* DesignAgent._format_execution_feedback
format_execution_feedback(i, exe) == Join(feedback_lines(i, exe))

\* The ScriptGenerationContext run builds at the head of an iteration.
\* ScriptGenerationContext as it would be if the configuration flag alone
\* asked for more views.
ScriptGenerationContext_flag_alone(req, errs, flag, pending, assembly, history) ==
    [requirement |-> req,
     previous_errors |-> errs,
     request_additional_views |-> (flag \/ pending),
     requires_assembly |-> assembly,
     script_history |-> history]

\* The context run builds at the head of an iteration.
ScriptGenerationContext(req, errs, flag, pending, assembly, history) ==
    [requirement |-> req,
     previous_errors |-> errs,
     request_additional_views |-> ((flag /\ errs # <<>>) \/ pending),
     requires_assembly |-> assembly,
     script_history |-> history]

\* PipelineReport.last_error: the error of the last artifact whose error is
\* truthy, None when there is none.
last_error(report_artifacts) ==
    LET with_error == { n \in 1..Len(report_artifacts) :
                          Truthy(report_artifacts[n].error) }
    IN  IF with_error = {} THEN None
        ELSE report_artifacts[CHOOSE n \in with_error :
                                  \A m \in with_error : m <= n].error

\* history_limit in _build_user_prompt
HistoryLimit == 3

\* The snippet _build_user_prompt shows for a script of the history.
snippet(body) ==
    IF strip(body) # <<>> THEN strip(body) ELSE <<"# Empty script recorded">>

ScriptLabel(position) == <<"[", "Script", Num(position), "]">>

\* history_block as it would be if the scripts were numbered within the
\* window.
history_block_numbered_in_window(history) ==
    LET n == Len(history)
        shown == IF n <= HistoryLimit THEN n ELSE HistoryLimit
    IN  IF history = <<>> THEN <<>>
        ELSE << <<"=== PREVIOUS PYTHON CONTEXT ===">> >>
             \o [k \in 1..(3 * shown) |->
                    CASE k % 3 = 1 -> ScriptLabel((k + 2) \div 3)
                      [] k % 3 = 2 -> snippet(history[n - shown + (k + 1) \div 3])
                      [] OTHER -> <<>>]

\* The entries _build_user_prompt appends for the script history: the
\* heading, then for each script of history[-history_limit:] its label with
\* its position in the whole history, its snippet, and an empty entry.
history_block(history) ==
    LET n == Len(history)
        shown == IF n <= HistoryLimit THEN n ELSE HistoryLimit
        start_index == n - shown + 1
    IN  IF history = <<>> THEN <<>>
        ELSE << <<"=== PREVIOUS PYTHON CONTEXT ===">> >>
             \o [k \in 1..(3 * shown) |->
                    CASE k % 3 = 1 -> ScriptLabel(start_index + (k - 1) \div 3)
                      [] k % 3 = 2 -> snippet(history[start_index + (k - 2) \div 3])
                      [] OTHER -> <<>>]

\* The entries of `lines` in ScriptGenerator._build_user_prompt, for the
\* default EnvironmentInfo.
prompt_lines(context) ==
    << <<"=== DESIGN REQUIREMENT ===">>,
       strip(context.requirement),
       <<>>,
       <<"=== ENVIRONMENT ===">>,
       <<"FreeCAD version:", "0.21">>,
       <<"Installed extensions:", "Part (v0.21)", ",", "Sketcher (v0.21)", ",",
         "TechDraw (v1.0)", ",", "Assembly3 (v0.12)", ",", "Assembly4 (v0.50)", ",",
         "A2plus (v0.4)">>,
       <<"Notes:", "Headless mode with automatic recompute">>,
       <<>> >>
    \o history_block(context.script_history)
    \o (IF context.previous_errors = <<>> THEN <<>>
        ELSE << <<"=== PREVIOUS ERRORS ===">> >> \o context.previous_errors \o << <<>> >>)
    \o (IF context.request_additional_views
        THEN << <<"Render additional projections for better inspection.">> >>
        ELSE <<>>)
    \o (IF context.requires_assembly
        THEN << <<>>,
                <<"The requirement references an assembly. Import dependent parts using Assembly3/Assembly4/A2plus">>,
                <<"workbenches and ensure each sub-component document is loaded before constraints are solved.">> >>
        ELSE <<>>)
    \o << <<"=== DOCUMENT WORKFLOW RULES ===">>,
          <<"Reuse FreeCAD.ActiveDocument and create a document named 'LLMAgentProject' if it does not exist.">>,
          <<"Add new Bodies/Parts to the active document, keep it active, and avoid deleting previously generated geometry.">>,
          <<"Ensure the preview updates by calling doc.recompute() and, when Gui is available, fit the active view.">>,
          <<"Return only Python code without markdown fences.">> >>

\* ScriptGenerator._build_user_prompt
build_user_prompt(context) == Join(prompt_lines(context))

\* UpdatePending as it would be if the flag followed the latest review.
UpdatePending_latest_only(pending, review) == review.needs_additional_views

\* run's update of the sticky flag after a review.
UpdatePending(pending, review) == pending \/ review.needs_additional_views

\* UpdateErrors as it would be if the feedback block were not kept.
UpdateErrors_dropped(errs, i, exe) == errs

\* UpdateErrors as it would be if the list held the latest block only.
UpdateErrors_latest_only(errs, i, exe) == << format_execution_feedback(i, exe) >>

\* run's update of the running error list after a failed execution.
UpdateErrors(errs, i, exe) == Append(errs, format_execution_feedback(i, exe))

\* IterationArtifact as it would be if the execution's error were not copied.
IterationArtifact_without_error(i, exe, body, rs, review) ==
    [iteration |-> i,
     script_path |-> exe.script_path,
     script_body |-> body,
     output_log |-> exe.output_log,
     render_paths |-> [k \in 1..Len(rs) |-> rs[k].image_path],
     success |-> exe.success,
     error |-> None,
     render_feedback |-> review.feedback,
     affected_objects |-> exe.affected_objects]

\* The IterationArtifact run appends for an iteration.
IterationArtifact(i, exe, body, rs, review) ==
    [iteration |-> i,
     script_path |-> exe.script_path,
     script_body |-> body,
     output_log |-> exe.output_log,
     render_paths |-> [k \in 1..Len(rs) |-> rs[k].image_path],
     success |-> exe.success,
     error |-> exe.error,
     render_feedback |-> review.feedback,
     affected_objects |-> exe.affected_objects]

\* PipelineReport.successful
successful(arts) == \E k \in 1..Len(arts) : arts[k].success

\* should_cancel as it would be if the predicate were never consulted.
should_cancel_ignored(is_cancelled) == FALSE

\* run's _should_cancel: the value is_cancelled() returns at a checkpoint.
should_cancel(is_cancelled) == is_cancelled

-----------------------------------------------------------------------------
(* The inputs the model draws from *)

\* Requirement texts, spelled letter by letter.
Requirements == { <<"b", "o", "x">> }

\* Script bodies the LLM may return.
Scripts == { <<"print", "(", "first", ")">>, <<"raise", " ", "boom">> }

\* What self._llm.complete does for a generation prompt.
GeneratorCompletions ==
    { [raised |-> TRUE, text |-> <<>>] }
    \cup { [raised |-> FALSE, text |-> body] : body \in Scripts }

\* What subprocess.run does in _run_with_freecad.
ProcessRuns ==
    { ProcessRun("timeout", 0, None, None, None),
      ProcessRun("notfound", 0, None, None, None),
      ProcessRun("completed", 0, Some(<<"Model", "generated", "\n">>), Some(<<>>),
                 Some(<<"Init", "done", "\n">>)),
      ProcessRun("completed", 1, Some(<<>>), Some(<<>>), None),
      ProcessRun("completed", 0, Some(<<"start", "\n">>),
                 Some(<<"Traceback", "(most", "recent", "call", "last):", "\n",
                        "Runtime", "Error", ":", "boom", "\n">>), None) }

\* What exec does with the script in _execute_internal.
ScriptRuns ==
    { ScriptRun("ok", <<"done", "\n">>, <<>>, <<>>, << Obj("Box", "Box") >>),
      ScriptRun("exception", <<"partial", "\n">>, <<"Value", "Error">>, <<"boom">>, <<>>),
      ScriptRun("exit", <<>>, <<"SystemExit">>, <<>>, <<>>) }

ReviewResponse(kind, needs, feedback, raw) ==
    [kind |-> kind, needs |-> needs, feedback |-> feedback, raw |-> raw]

\* What self._llm.complete does for a review conversation.
ReviewCompletions ==
    { [raised |-> TRUE, exc |-> <<"rate", "limited">>,
       response |-> ReviewResponse("text", "missing", None, <<>>)],
      [raised |-> FALSE, exc |-> <<>>,
       response |-> ReviewResponse("object", "true", Some(<<"show", "the", "top">>), <<>>)],
      [raised |-> FALSE, exc |-> <<>>,
       response |-> ReviewResponse("object", "false", Some(<<"looks", "fine">>), <<>>)],
      [raised |-> FALSE, exc |-> <<>>,
       response |-> ReviewResponse("nonobject", "missing", None, <<"[", "]">>)] }

\* Renderer.render returns its list or raises (an I/O error while it writes).
RenderOutcomes == {"returns", "raises"}

\* The configurations with max_iterations up to `most`.
Configs(most) ==
    [max_iterations : 0..most,
     request_additional_views_on_failure : BOOLEAN,
     views : { <<>>, <<"isometric">> }]

Call(step, i) == [step |-> step, iteration |-> i]

-----------------------------------------------------------------------------
(* The state machine *)

\* The state after DesignAgent.__init__, before run is called, for the given
\* configurations and the given outcomes of the engine's two probes.
InitRun(requirements, configs, runners, executables) ==
    /\ config \in configs
    /\ requirement \in requirements
    /\ assembly_required = FALSE
    /\ embedded_runner \in runners
    /\ executable \in executables
    /\ files = [p \in Paths |-> None]
    /\ cancelled = FALSE
    /\ pc = "start"
    /\ iteration = 0
    /\ errors = <<>>
    /\ pending_additional_views = FALSE
    /\ script_history = <<>>
    /\ artifacts = <<>>
    /\ script = <<>>
    /\ execution = NoExecution
    /\ renders = <<>>
    /\ raised = {}
    /\ contexts = <<>>
    /\ results = <<>>
    /\ reviews = <<>>
    /\ calls = <<>>
    /\ responses = <<>>
    /\ strategies = <<>>
    /\ invocations = <<>>
    /\ executions = <<>>
    /\ requests = <<>>
    /\ posted = <<>>
    /\ loop = "idle"
    /\ result_container = <<>>
    /\ connected = FALSE

NoPath == [some |-> FALSE, val |-> ""]

\* What FreeCADEngine.__init__ finds around it: config.executable_path,
\* whether it has a directory part, whether it exists, where a bare name is
\* found on the search path, the value of the FREECAD_EXECUTABLE variable,
\* and whether that value names an existing executable file.
Environment(executable_path, has_directory, exists, on_path, variable, variable_exists) ==
    [executable_path |-> executable_path, has_directory |-> has_directory,
     exists |-> exists, on_path |-> on_path, FREECAD_EXECUTABLE |-> variable,
     variable_exists |-> variable_exists]

\* shutil.which(str(path)): a name with a directory part is only tested
\* itself; a bare name is looked up on the search path.
which(env) ==
    IF env.has_directory
    THEN (IF env.exists THEN [some |-> TRUE, val |-> env.executable_path] ELSE NoPath)
    ELSE env.on_path

\* FreeCADEngine._discover_executable
discover_executable(env) ==
    IF env.exists THEN [some |-> TRUE, val |-> env.executable_path]
    ELSE IF which(env).some THEN which(env)
    ELSE NoPath

\* A session with one open, active document, and a session without documents.
PlainApplications ==
    { Application(Named("Unnamed"), NoName, {"Unnamed"}),
      Application(NoName, NoName, {}) }

\* The module state agrees with the project document and the GUI: a document
\* is active in both or in neither, only a session with a GUI has a GUI
\* document, and objects exist only in a document that is already open.
Consistent(app, doc, has_gui) ==
    /\ app.ActiveDocument.some = doc.is_active
    /\ app.gui_document.some => has_gui
    /\ doc.objects # <<>> => found_document(app, has_gui).some

\* Two surroundings: the default configured path exists, or nothing is found.
PlainEnvironments ==
    { Environment("/usr/bin/freecadcmd", TRUE, TRUE, NoPath, NoPath, FALSE),
      Environment("/usr/bin/freecadcmd", TRUE, FALSE, NoPath, NoPath, FALSE) }

\* The host session the engine is constructed in: the surroundings of
\* `environments` that give the engine the executable it has, the project
\* document, whether the session has a GUI, the thread run_script is called
\* on, and whether the runtime has a Qt bridge.
\* AgentDockWidget.__init__: no worker, no thread, no cancel event, an
\* empty artifact list, the run button enabled and the others not.  0 stands
\* for None in the worker fields, which otherwise hold the number of the
\* worker/thread pair in `workers`.
InitDock ==
    /\ dock = [run_button |-> TRUE, cancel_button |-> FALSE,
               run_selected_button |-> FALSE,
               worker |-> 0, worker_thread |-> 0, cancel_event |-> 0,
               macro_worker |-> 0, macro_thread |-> 0,
               artifact_data |-> 0, current_row |-> 0]
    /\ workers = <<>>
    /\ main_events = <<>>

InitHostIn(environments, applications, documents, guis, threads, executors) ==
    /\ InitDock
    /\ environment \in { env \in environments : discover_executable(env).some = executable }
    /\ completions = <<>>
    /\ document \in documents
    /\ gui \in guis
    /\ caller_thread \in threads
    /\ qt_executor \in executors
    /\ application \in { app \in applications : Consistent(app, document, gui) }

InitHost(documents, guis, threads, executors) ==
    InitHostIn(PlainEnvironments, PlainApplications, documents, guis, threads, executors)

\* A session with a GUI whose active document is empty.
EmptyDocument == Document(TRUE, <<>>, NoObject)

\* A run called on the main thread of a session with an empty active
\* document.
InitWith(configs, runners, executables) ==
    /\ InitRun(Requirements, configs, runners, executables)
    /\ InitHost({EmptyDocument}, {TRUE}, {"main"}, {FALSE})

Terminal == {"returned", "cancelled", "raised"}

\* The caller's cancellation predicate changes its answer.
ToggleCancel ==
    /\ pc \notin Terminal
    /\ cancelled' = ~cancelled
    /\ UNCHANGED << hostVars, assembly_required, config, requirement, embedded_runner, executable, files, pc,
                    iteration, errors, pending_additional_views, script_history,
                    artifacts, script, execution, renders, raised, contexts,
                    results, reviews, calls >>

\* _ensure_not_cancelled raising PipelineCancelledError out of run.
RaiseCancelled ==
    /\ pc' = "cancelled"
    /\ UNCHANGED << hostVars, assembly_required, config, requirement, embedded_runner, executable, files,
                    cancelled, iteration, errors, pending_additional_views,
                    script_history, artifacts, script, execution, renders,
                    raised, contexts, results, reviews, calls >>

\* run is called: its locals are set up and the loop is entered, or skipped
\* when range(1, max_iterations + 1) is empty.
StartRun ==
    /\ pc = "start"
    /\ assembly_required' = require_assembly(requirement)
    /\ iteration' = 1
    /\ pc' = IF config.max_iterations >= 1 THEN "loop_head" ELSE "returned"
    /\ UNCHANGED << hostVars, config, requirement, embedded_runner, executable, files,
                    cancelled, errors, pending_additional_views, script_history,
                    artifacts, script, execution, renders, raised, contexts,
                    results, reviews, calls >>

\* generate as it would be if it caught the completion's exception and
\* returned an empty script.
generate_swallowing(completion) ==
    [raised |-> FALSE, text |-> IF completion.raised THEN <<>> ELSE completion.text]

\* ScriptGenerator.generate: it returns what the completion returns and lets
\* the completion's exception through.
generate(completion) == completion

\* The checkpoint at the head of the loop body, the context and the call of
\* the generator.  `raised` records that the completion raised; where run goes
\* depends on what generate does with it.
GenerateOn(generated) ==
    /\ pc = "loop_head"
    /\ IF should_cancel(cancelled) THEN RaiseCancelled
       ELSE \E completion \in generated :
            /\ contexts' = Append(contexts,
                   ScriptGenerationContext(requirement, errors,
                       config.request_additional_views_on_failure,
                       pending_additional_views, assembly_required,
                       script_history))
            /\ calls' = Append(calls, Call("generate", iteration))
            /\ raised' = IF completion.raised
                         THEN raised \cup {Call("generate", iteration)}
                         ELSE raised
            /\ IF generate(completion).raised
               THEN /\ pc' = "raised"
                    /\ UNCHANGED << script, script_history >>
               ELSE /\ script' = generate(completion).text
                    /\ script_history' = Append(script_history, generate(completion).text)
                    /\ pc' = "generated"
            /\ UNCHANGED << hostVars, assembly_required, config, requirement, embedded_runner, executable,
                            files, cancelled, iteration, errors,
                            pending_additional_views, artifacts, execution,
                            renders, results, reviews >>

Generate == GenerateOn(GeneratorCompletions)

\* StoreScript as it would be if every macro went to the first script file.
StoreScript_fixed_name(fs, body, i) == [fs EXCEPT ![ScriptPath(1)] = Some(body)]

\* The workspace after run_script has stored the macro.
StoreScript(fs, body, i) == [fs EXCEPT ![ScriptPath(i)] = Some(body)]

\* The checkpoint after generation and the first lines of run_script, which
\* store the macro.
RunScriptStore ==
    /\ pc = "generated"
    /\ IF should_cancel(cancelled) THEN RaiseCancelled
       ELSE /\ files' = StoreScript(files, script, iteration)
            /\ calls' = Append(calls, Call("run_script", iteration))
            /\ pc' = "stored"
            /\ UNCHANGED << hostVars, assembly_required, config, requirement, embedded_runner, executable,
                            cancelled, iteration, errors, pending_additional_views,
                            script_history, artifacts, script, execution, renders,
                            raised, contexts, results, reviews >>

\* run_script returns `result` to run.
ReturnResult(result) ==
    /\ execution' = result
    /\ results' = Append(results, result)
    /\ pc' = "executed"

\* select_strategy as it would be if the executable were probed first.
select_strategy_executable_first(embedded, exe) ==
    IF exe THEN "run_with_freecad"
    ELSE IF embedded THEN "execute"
    ELSE "simulate_execution"

\* The three ifs that end run_script: the method it hands the script to.
select_strategy(embedded, exe) ==
    IF embedded THEN "execute"
    ELSE IF exe THEN "run_with_freecad"
    ELSE "simulate_execution"

\* What run_script was given, what it found in its two fields when it chose,
\* and the method it called.  The k-th dispatch is the one the k-th result
\* comes from.
Dispatch(method) ==
    [script_body |-> script, script_path |-> ScriptPath(iteration),
     embedded |-> embedded_runner, executable |-> executable, method |-> method]

\* uses_bridge as it would be if execute never took the bridge.
uses_bridge_never(thread, has_executor) == FALSE

\* _EmbeddedFreeCADRuntime.execute: off the main thread the call goes through
\* the Qt bridge when the runtime has one; otherwise _execute_internal runs
\* on the calling thread.
uses_bridge(thread, has_executor) == thread # "main" /\ has_executor

\* One _execute_internal run: the dispatch it serves, the thread it ran on,
\* the refresh call that raised, and what execute_internal says it did.
Execution(dispatch, thread, failure, out) ==
    [dispatch |-> dispatch, thread |-> thread, failure |-> failure,
     returned |-> out.returned, run |-> out.run,
     result |-> out.result, before |-> out.before, document |-> out.document,
     calls |-> out.calls]

\* run_script with an embedded runtime whose execute runs _execute_internal
\* on the calling thread, for the script outcomes `runs` and the refresh
\* failures `failures`.
RunEmbeddedOn(runs, failures) ==
    /\ pc = "stored"
    /\ select_strategy(embedded_runner, executable) = "execute"
    /\ ~uses_bridge(caller_thread, qt_executor)
    /\ strategies' = Append(strategies, Dispatch("execute"))
    /\ \E run \in runs, failure \in failures :
         LET out == execute_internal(script, ScriptPath(iteration), run,
                                     document, gui, failure)
         IN  /\ document' = out.document
             /\ application' = ensured_application(application, gui)
             /\ executions' = Append(executions,
                    Execution(Len(strategies) + 1, caller_thread, failure, out))
             /\ IF out.returned
                THEN /\ ReturnResult(out.result)
                     /\ UNCHANGED raised
                ELSE /\ raised' = raised \cup {Call("run_script", iteration)}
                     /\ pc' = "raised"
                     /\ UNCHANGED << execution, results >>
    /\ UNCHANGED << assembly_required, config, requirement, embedded_runner, executable, files,
                    cancelled, iteration, errors, pending_additional_views,
                    script_history, artifacts, script, renders, contexts,
                    reviews, calls, invocations, sessionVars, bridgeVars >>

RunEmbedded == RunEmbeddedOn(ScriptRuns, {"none"})

\* One subprocess.run call of _run_with_freecad: the dispatch it belongs to
\* and what the process did.
Invocation(run) == [dispatch |-> Len(strategies) + 1, run |-> run]

\* run_script with a cached executable and no embedded runtime, for the
\* process outcomes `runs`.
RunWithFreecadOn(runs) ==
    /\ pc = "stored"
    /\ select_strategy(embedded_runner, executable) = "run_with_freecad"
    /\ strategies' = Append(strategies, Dispatch("run_with_freecad"))
    /\ \E run \in runs :
         LET out == run_with_freecad(ScriptPath(iteration), files, run)
         IN  /\ ReturnResult(out.result)
             /\ executable' = out.executable
             /\ files' = out.files
             /\ invocations' = Append(invocations, Invocation(run))
    /\ UNCHANGED << assembly_required, config, requirement, embedded_runner, cancelled, iteration,
                    errors, pending_additional_views, script_history, artifacts,
                    script, renders, raised, contexts, reviews, calls,
                    document, executions, application, sessionVars, bridgeVars >>

RunWithFreecad == RunWithFreecadOn(ProcessRuns)

\* run_script with neither.
RunSimulated ==
    /\ pc = "stored"
    /\ select_strategy(embedded_runner, executable) = "simulate_execution"
    /\ strategies' = Append(strategies, Dispatch("simulate_execution"))
    /\ ReturnResult(simulate_execution(script, ScriptPath(iteration)))
    /\ UNCHANGED << assembly_required, config, requirement, embedded_runner, executable, files,
                    cancelled, iteration, errors, pending_additional_views,
                    script_history, artifacts, script, renders, raised,
                    contexts, reviews, calls, invocations, document,
                    executions, application, sessionVars, bridgeVars >>

\* The checkpoint after execution and the call of the renderer.
Render ==
    /\ pc = "executed"
    /\ IF should_cancel(cancelled) THEN RaiseCancelled
       ELSE \E outcome \in RenderOutcomes :
            /\ calls' = Append(calls, Call("render", iteration))
            /\ IF outcome = "raises"
               THEN /\ raised' = raised \cup {Call("render", iteration)}
                    /\ pc' = "raised"
                    /\ UNCHANGED renders
               ELSE /\ renders' = render(config.views, iteration)
                    /\ pc' = "rendered"
                    /\ UNCHANGED raised
            /\ UNCHANGED << hostVars, assembly_required, config, requirement, embedded_runner, executable,
                            files, cancelled, iteration, errors,
                            pending_additional_views, script_history, artifacts,
                            script, execution, contexts, results, reviews >>

\* ReviewCalls as they would be if run skipped the review of an iteration
\* without renders.
ReviewCalls_skipped_without_renders(rs, completion, i) ==
    IF rs = <<>> THEN <<>>
    ELSE << Call("review", i), Call("complete", i) >>
         \o (IF completion.raised THEN <<>> ELSE << Call("parse_render_response", i) >>)

\* The calls the review step makes, and those of them that raise.
ReviewCalls(rs, completion, i) ==
    << Call("review", i) >>
    \o (IF rs = <<>> THEN <<>> ELSE << Call("complete", i) >>)
    \o (IF rs = <<>> \/ completion.raised THEN <<>>
        ELSE << Call("parse_render_response", i) >>)

ReviewRaises(rs, completion, i) ==
    IF rs = <<>> THEN {}
    ELSE IF completion.raised THEN {Call("complete", i)}
    ELSE IF parse_render_response(completion.response).raised
    THEN {Call("parse_render_response", i)}
    ELSE {}

\* LoopExit as it would be if the loop had no break.
LoopExit_never(exe) == FALSE

\* run's `if execution.success: break`.
LoopExit(exe) == exe.success

\* The checkpoint after rendering, the review, and the rest of the loop body
\* up to the last checkpoint: the sticky flag, the artifact, and either the
\* break or the feedback block.
ReviewOn(answers) ==
    /\ pc = "rendered"
    /\ IF should_cancel(cancelled) THEN RaiseCancelled
       ELSE \E completion \in (IF renders = <<>> THEN {CHOOSE c \in answers : TRUE}
                               ELSE answers) :
            LET review == review_renders(renders, completion)
            IN  /\ reviews' = Append(reviews, review)
                /\ calls' = calls \o ReviewCalls(renders, completion, iteration)
                /\ responses' = IF renders = <<>> \/ completion.raised THEN responses
                                 ELSE Append(responses,
                                          [iteration |-> iteration,
                                           response |-> completion.response])
                /\ raised' = raised \cup ReviewRaises(renders, completion, iteration)
                /\ pending_additional_views' =
                       UpdatePending(pending_additional_views, review)
                /\ artifacts' = Append(artifacts,
                       IterationArtifact(iteration, execution, script, renders, review))
                /\ IF LoopExit(execution)
                   THEN /\ pc' = "returned"
                        /\ UNCHANGED errors
                   ELSE /\ errors' = UpdateErrors(errors, iteration, execution)
                        /\ pc' = "iteration_end"
                /\ UNCHANGED << strategies, invocations, document, executions,
                                application, gui, qt_executor, caller_thread,
                                environment, completions, bridgeVars, dockVars,
                                assembly_required, config, requirement, embedded_runner, executable,
                                files, cancelled, iteration, script_history,
                                script, execution, renders, contexts, results >>

Review == ReviewOn(ReviewCompletions)

\* range_has_next as it would be if the loop ended after its first pass.
range_has_next_single_pass(i, max_iterations) == FALSE

\* Whether range(1, max_iterations + 1) has a value after i.
range_has_next(i, max_iterations) == i < max_iterations

\* The checkpoint that ends a failed iteration, and the loop's step: the next
\* iteration, or the return when the range is exhausted.
EndIteration ==
    /\ pc = "iteration_end"
    /\ IF should_cancel(cancelled) THEN RaiseCancelled
       ELSE /\ IF range_has_next(iteration, config.max_iterations)
               THEN /\ iteration' = iteration + 1
                    /\ pc' = "loop_head"
               ELSE /\ pc' = "returned"
                    /\ UNCHANGED iteration
            /\ UNCHANGED << hostVars, assembly_required, config, requirement, embedded_runner, executable,
                            files, cancelled, errors, pending_additional_views,
                            script_history, artifacts, script, execution,
                            renders, raised, contexts, results, reviews, calls >>

Next ==
    \/ ToggleCancel
    \/ StartRun
    \/ Generate
    \/ RunScriptStore
    \/ RunEmbedded
    \/ RunWithFreecad
    \/ RunSimulated
    \/ Render
    \/ Review
    \/ EndIteration

Init == InitWith(Configs(MaxIter), BOOLEAN, BOOLEAN)

Spec == Init /\ [][Next]_vars

\* Longer runs of an engine that found neither an embedded runtime nor an
\* executable.
InitLong == InitWith(Configs(LongIter), {FALSE}, {FALSE})

NextLong ==
    \/ ToggleCancel
    \/ StartRun
    \/ Generate
    \/ RunScriptStore
    \/ RunSimulated
    \/ Render
    \/ Review
    \/ EndIteration

SpecLong == InitLong /\ [][NextLong]_vars

-----------------------------------------------------------------------------
(* Planning: runs of the simulating engine over requirement texts with and  *)
(* without the assembly keywords                                             *)

\* Requirement texts, spelled letter by letter: without a keyword, with
\* "ASSEMBLY" and "Assembly", with "assemblies", with the Russian stem in
\* mixed case, and with "assemble", which is no keyword.
PlanningRequirements ==
    Requirements \cup
    { <<"g", "e", "a", "r", " ", "A", "S", "S", "E", "M", "B", "L", "Y">>,
      <<"A", "s", "s", "e", "m", "b", "l", "y", " ", "o", "f", " ", "2">>,
      <<"t", "w", "o", " ", "a", "s", "s", "e", "m", "b", "l", "i", "e", "s">>,
      <<"RU_S", "ru_b", "ru_o", "RU_R", "ru_k", "ru_a">>,
      <<"a", "s", "s", "e", "m", "b", "l", "e", " ", "i", "t">> }

InitPlanning ==
    /\ InitRun(PlanningRequirements, Configs(MaxIter), {FALSE}, {FALSE})
    /\ InitHost({EmptyDocument}, {TRUE}, {"main"}, {FALSE})

SpecPlanning == InitPlanning /\ [][NextLong]_vars

-----------------------------------------------------------------------------
(* The engine on its own: a caller, such as the script runner of gui.py,     *)
(* that hands macros to run_script of one engine without an embedded runtime *)

\* The number of run_script calls the caller makes.
MaxCalls == 2

\* The iteration indexes the caller passes.
EngineIterations == {1, 2}

\* The macros the caller passes: those of Scripts, and one whose only "raise"
\* stands in a comment and whose lines end in "\r\n".
EngineScripts ==
    Scripts \cup { <<"#", " ", "raise", " ", "the", " ", "lid", "\r\n",
                     "print", "(", "lid", ")", "\r\n">> }

\* What subprocess.run does for the engine on its own.
EngineProcessRuns ==
    { ProcessRun("timeout", 0, Some(<<"partial", "\n">>), None,
                 Some(<<"Init", "begun", "\n">>)),
      ProcessRun("notfound", 0, None, None, None),
      ProcessRun("completed", 0, Some(<<>>), Some(<<>>), None),
      ProcessRun("completed", 0, Some(<<"Model", "generated", "\n">>), Some(<<>>),
                 Some(<<"Init", "done", "\n">>)),
      ProcessRun("completed", 0, Some(<<"start", "\n">>),
                 Some(<<"Traceback", "(most", "recent", "call", "last):", "\n",
                        "Runtime", "Error", ":", "boom", "\n">>), None),
      ProcessRun("completed", 0, Some(<<"Error", ":", "no", "shape", "\n">>), Some(<<>>),
                 Some(<<"Init", "done", "\n", "Traceback", "(most", "recent", "\n">>)),
      ProcessRun("completed", 0, Some(<<"caught", "Exception", "\n">>), Some(<<>>), None),
      ProcessRun("completed", 0, Some(<<"Model", "generated", "\n">>), Some(<<>>),
                 Some(<<"[ERR]", "recompute", "failed", "\r\n">>)),
      ProcessRun("completed", 1, Some(<<>>), Some(<<>>), None),
      ProcessRun("completed", 1, Some(<<"Model", "generated", "\n">>),
                 Some(<<"warning", "\n", "abort", "\n">>),
                 Some(<<"Init", "done", "\n">>)) }

\* The caller calls run_script(script_body, iteration) with a body of `bodies`
\* and an index of `indexes`; run_script stores the macro.
CallRunScriptOn(bodies, indexes) ==
    /\ pc \in {"start", "executed"}
    /\ Len(calls) < MaxCalls
    /\ \E body \in bodies, i \in indexes :
         /\ script' = body
         /\ iteration' = i
         /\ files' = StoreScript(files, body, i)
         /\ calls' = Append(calls, Call("run_script", i))
    /\ pc' = "stored"
    /\ UNCHANGED << hostVars, assembly_required, config, requirement, embedded_runner, executable,
                    cancelled, errors, pending_additional_views, script_history,
                    artifacts, execution, renders, raised, contexts, results,
                    reviews >>

CallRunScript == CallRunScriptOn(EngineScripts, EngineIterations)

EngineRunWithFreecad == RunWithFreecadOn(EngineProcessRuns)

\* The caller reads no configuration: one is enough.
EngineConfigs ==
    { c \in Configs(0) : c.views = <<>> /\ ~c.request_additional_views_on_failure }

InitEngine == InitWith(EngineConfigs, {FALSE}, BOOLEAN)

NextEngine ==
    \/ CallRunScript
    \/ EngineRunWithFreecad
    \/ RunSimulated

SpecEngine == InitEngine /\ [][NextEngine]_vars

-----------------------------------------------------------------------------
(* Discovery: engines constructed in various surroundings, then called      *)

\* The surroundings of the constructor: the configured path exists; it is
\* missing while FREECAD_EXECUTABLE names an existing executable; a bare name
\* is found on the search path; a bare name is found nowhere; the configured
\* path exists and the variable names another executable; the configured
\* path is missing and the variable names no file.
Environments ==
    PlainEnvironments \cup
    { Environment("/missing/freecadcmd", TRUE, FALSE, NoPath,
                  [some |-> TRUE, val |-> "/snap/bin/freecadcmd"], TRUE),
      Environment("freecadcmd", FALSE, FALSE,
                  [some |-> TRUE, val |-> "/usr/local/bin/freecadcmd"], NoPath, FALSE),
      Environment("freecadcmd", FALSE, FALSE, NoPath, NoPath, FALSE),
      Environment("/usr/bin/freecadcmd", TRUE, TRUE, NoPath,
                  [some |-> TRUE, val |-> "/snap/bin/freecadcmd"], TRUE),
      Environment("/missing/freecadcmd", TRUE, FALSE, NoPath,
                  [some |-> TRUE, val |-> "/gone/freecadcmd"], FALSE) }

InitDiscovery ==
    /\ InitRun(Requirements, EngineConfigs, {FALSE}, BOOLEAN)
    /\ InitHostIn(Environments, PlainApplications, {EmptyDocument}, {TRUE}, {"main"}, {FALSE})

NextDiscovery ==
    \/ CallRunScript
    \/ EngineRunWithFreecad
    \/ RunSimulated

SpecDiscovery == InitDiscovery /\ [][NextDiscovery]_vars

-----------------------------------------------------------------------------
(* The HTTP chat client: complete() against a provider's endpoint            *)

\* A response of the endpoint: its status, its Retry-After header in tenths
\* of a second, and data["choices"][0]["message"]["content"] when the body
\* has it.
Response(status, retry_after, content) ==
    [status |-> status, retry_after |-> retry_after, content |-> content]

NoDelay == [some |-> FALSE, val |-> 0]

\* What the endpoint answers to one request.
Responses ==
    { Response(200, NoDelay, Some(<<"second", " ", "attempt">>)),
      Response(200, NoDelay, Some(<<" ", "ok", "\n">>)),
      Response(200, NoDelay, None),
      Response(429, [some |-> TRUE, val |-> 1], None),
      Response(429, NoDelay, None),
      Response(500, NoDelay, None) }

\* What the endpoint would answer to the first and to a second request.
Servers == Responses \X Responses

\* response.raise_for_status()
raise_for_status(response) == response.status >= 400

\* The outcome of reading one response: HTTPStatusError, RuntimeError for a
\* malformed body, or the stripped content.
read_response(response) ==
    IF raise_for_status(response)
    THEN [raised |-> "HTTPStatusError", content |-> <<>>]
    ELSE IF ~response.content.some
    THEN [raised |-> "RuntimeError", content |-> <<>>]
    ELSE [raised |-> "", content |-> strip(response.content.val)]

\* _BaseHTTPChatClient.complete: one post, raise_for_status, then the content
\* of the body.  The record keeps what the endpoint would have answered, the
\* number of requests issued, the delays slept, and the outcome.
complete(server) ==
    LET first == read_response(server[1])
    IN  [server |-> server, attempts |-> 1, sleeps |-> <<>>,
         raised |-> first.raised, content |-> first.content]

\* A caller completes a conversation against an endpoint.
CallComplete ==
    /\ Len(completions) < MaxCalls
    /\ \E server \in Servers :
           completions' = Append(completions, complete(server))
    /\ UNCHANGED << config, requirement, embedded_runner, executable, files,
                    cancelled, pc, iteration, errors, pending_additional_views,
                    script_history, artifacts, script, execution, renders,
                    raised, contexts, results, reviews, calls, strategies,
                    invocations, document, gui, qt_executor, caller_thread,
                    executions, bridgeVars, assembly_required, environment,
                    application, responses, dockVars >>

InitClient ==
    /\ InitRun(Requirements, EngineConfigs, {FALSE}, {FALSE})
    /\ InitHost({EmptyDocument}, {TRUE}, {"main"}, {FALSE})

NextClient == CallComplete

SpecClient == InitClient /\ [][NextClient]_vars

-----------------------------------------------------------------------------
(* Feedback: runs whose engine is replaced by one that answers with given   *)
(* results, as the pipeline's tests do                                       *)

\* A log of n lines, each naming its position.
LogOf(n) == [k \in 1..n |-> <<"line", Num(k)>>]

\* A failed result with the given error and a log of n lines.
FailedResult(error, n) ==
    ScriptExecutionResult(FALSE, ScriptPath(1), LogOf(n), error, <<>>)

\* What the replaced engine answers: failures without error and output, with
\* an empty error, with logs up to, at and beyond the tail limit, and a
\* success.
StubResults ==
    { FailedResult(None, 0),
      FailedResult(Some(<<>>), 0),
      FailedResult(Some(<<"boom">>), 0),
      FailedResult(None, 1),
      FailedResult(Some(<<"boom">>), 2),
      FailedResult(None, TailLimit),
      FailedResult(Some(<<"boom">>), TailLimit + 1),
      FailedResult(None, TailLimit + 2),
      ScriptExecutionResult(TRUE, ScriptPath(1), << <<"ok">> >>, None, <<>>) }

\* run_script of the replaced engine returns one of its results.
RunStubEngineOn(answers) ==
    /\ pc = "stored"
    /\ \E result \in answers : ReturnResult(result)
    /\ UNCHANGED << hostVars, assembly_required, config, requirement, embedded_runner,
                    executable, files, cancelled, iteration, errors,
                    pending_additional_views, script_history, artifacts, script,
                    renders, raised, contexts, reviews, calls >>

RunStubEngine == RunStubEngineOn(StubResults)

FeedbackConfigs ==
    { c \in Configs(MaxIter) : c.views = <<>> /\ c.request_additional_views_on_failure }

InitFeedback == InitWith(FeedbackConfigs, {FALSE}, {FALSE})

NextFeedback ==
    \/ StartRun
    \/ Generate
    \/ RunScriptStore
    \/ RunStubEngine
    \/ Render
    \/ Review
    \/ EndIteration

SpecFeedback == InitFeedback /\ [][NextFeedback]_vars

-----------------------------------------------------------------------------
(* Prompt: runs long enough for the script history to outgrow its window     *)

PromptIter == 5

\* What the completion returns to the generator: two macros and a blank one.
PromptCompletions ==
    { [raised |-> FALSE, text |-> body] :
          body \in Scripts \cup { <<" ", "\n">> } }

PromptGenerate == GenerateOn(PromptCompletions)

\* The replaced engine fails with an error and one line of output, or
\* succeeds.
PromptResults ==
    { FailedResult(Some(<<"boom">>), 1),
      ScriptExecutionResult(TRUE, ScriptPath(1), << <<"ok">> >>, None, <<>>) }

PromptRunScript == RunStubEngineOn(PromptResults)

PromptConfigs ==
    { c \in Configs(PromptIter) :
          /\ c.views = <<>>
          /\ c.request_additional_views_on_failure
          /\ c.max_iterations = PromptIter }

InitPrompt == InitWith(PromptConfigs, {FALSE}, {FALSE})

NextPrompt ==
    \/ StartRun
    \/ PromptGenerate
    \/ RunScriptStore
    \/ PromptRunScript
    \/ Render
    \/ Review
    \/ EndIteration

SpecPrompt == InitPrompt /\ [][NextPrompt]_vars

-----------------------------------------------------------------------------
(* gui.py: the dock widget, its agent-run worker and its macro worker        *)

\* The worker/thread pairs a session starts.
MaxRuns == 3

\* The iteration limit the dock hands to its agent worker.
GuiIter == 2

\* Everything but the dock and its Qt objects.
engineVars == << config, requirement, embedded_runner, executable, files,
                 cancelled, pc, iteration, errors, pending_additional_views,
                 script_history, artifacts, script, execution, renders,
                 raised, contexts, results, reviews, calls, strategies,
                 invocations, document, gui, qt_executor, caller_thread,
                 executions, bridgeVars, assembly_required, environment,
                 completions, application, responses >>

\* A worker moved to its own QThread: an _AgentWorker ("agent") or a
\* _MacroExecutionWorker ("macro").  `state` is "started" while run executes
\* outside run_script, "run_script" while a run_script call is in flight,
\* "emitted" once run has emitted its signal and returned, "quitting" once
\* the thread was told to quit, "finished" once the thread has finished.
\* `iteration` is the index of the current or last run_script call, `done`
\* the number of calls that returned.
Worker(kind, index) ==
    [kind |-> kind, state |-> "started", iteration |-> index, done |-> 0,
     cancel_set |-> FALSE, worker_deleted |-> FALSE, thread_deleted |-> FALSE]

\* A queued invocation of a slot on the main thread for the pair `run`.
SlotCall(slot, run, outcome, count) ==
    [slot |-> slot, run |-> run, outcome |-> outcome, artifacts |-> count]

\* AgentDockWidget._clear_artifacts
clear_artifacts(d) ==
    [d EXCEPT !.artifact_data = 0, !.current_row = 0, !.run_selected_button = FALSE]

\* AgentDockWidget._finalize_agent_run
finalize_agent_run(d) ==
    [d EXCEPT !.run_button = TRUE, !.cancel_button = FALSE, !.cancel_event = 0]

\* AgentDockWidget._update_artifact_list and the selection of the last row,
\* which shows the artifact and enables the button that runs it.
update_artifact_list(d, count) ==
    IF count = 0 THEN [d EXCEPT !.artifact_data = 0, !.current_row = 0]
    ELSE [d EXCEPT !.artifact_data = count, !.current_row = count,
                   !.run_selected_button = TRUE]

\* The user presses the run button: _start_agent_run.
StartAgentRun ==
    /\ dock.run_button
    /\ Len(workers) < MaxRuns
    /\ dock' = [clear_artifacts(dock) EXCEPT
                   !.run_button = FALSE, !.cancel_button = TRUE,
                   !.cancel_event = Len(workers) + 1,
                   !.worker = Len(workers) + 1,
                   !.worker_thread = Len(workers) + 1]
    /\ workers' = Append(workers, Worker("agent", 0))
    /\ UNCHANGED << engineVars, main_events >>

\* The user presses the cancel button: _cancel_agent_run.
CancelAgentRun ==
    /\ dock.cancel_button
    /\ dock.cancel_event # 0
    /\ ~workers[dock.cancel_event].cancel_set
    /\ workers' = [workers EXCEPT ![dock.cancel_event].cancel_set = TRUE]
    /\ dock' = [dock EXCEPT !.cancel_button = FALSE]
    /\ UNCHANGED << engineVars, main_events >>

\* The user selects a row of the artifact list: _display_selected_artifact.
SelectArtifact ==
    /\ dock.artifact_data > 0
    /\ \E row \in 1..dock.artifact_data :
          /\ row # dock.current_row
          /\ dock' = [dock EXCEPT !.current_row = row, !.run_selected_button = TRUE]
    /\ UNCHANGED << engineVars, workers, main_events >>

\* The user presses the button that runs the selected macro:
\* _execute_selected_macro.
ExecuteSelectedMacro ==
    /\ dock.run_selected_button
    /\ dock.current_row # 0
    /\ Len(workers) < MaxRuns
    /\ dock' = [dock EXCEPT !.run_selected_button = FALSE,
                            !.macro_worker = Len(workers) + 1,
                            !.macro_thread = Len(workers) + 1]
    /\ workers' = Append(workers, Worker("macro", dock.current_row))
    /\ UNCHANGED << engineVars, main_events >>

\* The run_script calls a worker's run makes at most: the agent one per
\* iteration, the macro worker one.
call_limit(w) == IF w.kind = "agent" THEN GuiIter ELSE 1

\* A worker's run calls run_script: the agent's pipeline with the index of
\* its next iteration, the macro worker with the index of its artifact.
WorkerCallsRunScript ==
    \E n \in 1..Len(workers) :
        /\ workers[n].state = "started"
        /\ workers[n].done < call_limit(workers[n])
        /\ workers' = [workers EXCEPT
               ![n].state = "run_script",
               ![n].iteration = IF workers[n].kind = "agent"
                                THEN workers[n].done + 1 ELSE workers[n].iteration]
        /\ UNCHANGED << engineVars, dock, main_events >>

\* The run_script call of a worker returns.
RunScriptReturns ==
    \E n \in 1..Len(workers) :
        /\ workers[n].state = "run_script"
        /\ workers' = [workers EXCEPT ![n].state = "started",
                                      ![n].done = workers[n].done + 1]
        /\ UNCHANGED << engineVars, dock, main_events >>

\* The signals a worker's run can end with: finished after its calls (the
\* agent's run can succeed early), cancelled once the cancel event is set,
\* failed at any point.
outcomes(w) ==
    {"failed"}
    \cup (IF w.done >= 1 THEN {"finished"} ELSE {})
    \cup (IF w.kind = "agent" /\ w.cancel_set THEN {"cancelled"} ELSE {})

\* run emits its signal and returns.  The result handler and then the
\* thread's quit are connected to each signal; both receivers live on the
\* main thread, so both invocations are queued for it in that order.
WorkerEmits ==
    \E n \in 1..Len(workers) :
        /\ workers[n].state = "started"
        /\ \E outcome \in outcomes(workers[n]) :
              main_events' = main_events \o
                  << SlotCall(IF workers[n].kind = "agent"
                              THEN "handle_run" ELSE "handle_macro",
                              n, outcome, workers[n].done),
                     SlotCall("quit", n, outcome, 0) >>
        /\ workers' = [workers EXCEPT ![n].state = "emitted"]
        /\ UNCHANGED << engineVars, dock >>

\* _handle_run_success, _handle_run_failure, _handle_run_cancelled
HandleRunResult ==
    /\ main_events # <<>>
    /\ Head(main_events).slot = "handle_run"
    /\ dock' = IF Head(main_events).outcome = "finished"
               THEN update_artifact_list(finalize_agent_run(dock),
                                         Head(main_events).artifacts)
               ELSE clear_artifacts(finalize_agent_run(dock))
    /\ main_events' = Tail(main_events)
    /\ UNCHANGED << engineVars, workers >>

\* _handle_manual_macro_finished, _handle_manual_macro_failed
HandleMacroResult ==
    /\ main_events # <<>>
    /\ Head(main_events).slot = "handle_macro"
    /\ dock' = [dock EXCEPT !.run_selected_button = TRUE]
    /\ main_events' = Tail(main_events)
    /\ UNCHANGED << engineVars, workers >>

\* QThread.quit, invoked on the main thread for the thread of a pair.
ThreadQuit ==
    /\ main_events # <<>>
    /\ Head(main_events).slot = "quit"
    /\ workers' = [workers EXCEPT ![Head(main_events).run].state = "quitting"]
    /\ main_events' = Tail(main_events)
    /\ UNCHANGED << engineVars, dock >>

\* The event loop of a thread that was told to quit ends: the thread emits
\* finished, and the cleanup slot connected to it is queued for the main
\* thread.
ThreadFinished ==
    \E n \in 1..Len(workers) :
        /\ workers[n].state = "quitting"
        /\ workers' = [workers EXCEPT ![n].state = "finished"]
        /\ main_events' = Append(main_events,
               SlotCall(IF workers[n].kind = "agent"
                        THEN "cleanup_worker" ELSE "cleanup_macro_worker",
                        n, "finished", 0))
        /\ UNCHANGED << engineVars, dock >>

\* deleteLater() on the worker the dock's field names, if it names one.
delete_worker(ws, n) ==
    IF n = 0 THEN ws ELSE [ws EXCEPT ![n].worker_deleted = TRUE]

\* deleteLater() on the thread the dock's field names, if it names one.
delete_thread(ws, n) ==
    IF n = 0 THEN ws ELSE [ws EXCEPT ![n].thread_deleted = TRUE]

\* _cleanup_worker
CleanupWorker ==
    /\ main_events # <<>>
    /\ Head(main_events).slot = "cleanup_worker"
    /\ workers' = delete_thread(delete_worker(workers, dock.worker), dock.worker_thread)
    /\ dock' = [dock EXCEPT !.worker = 0, !.worker_thread = 0]
    /\ main_events' = Tail(main_events)
    /\ UNCHANGED engineVars

\* _cleanup_macro_worker
CleanupMacroWorker ==
    /\ main_events # <<>>
    /\ Head(main_events).slot = "cleanup_macro_worker"
    /\ workers' = delete_thread(delete_worker(workers, dock.macro_worker), dock.macro_thread)
    /\ dock' = [dock EXCEPT !.macro_worker = 0, !.macro_thread = 0]
    /\ main_events' = Tail(main_events)
    /\ UNCHANGED engineVars

InitGui ==
    /\ InitRun({<<"make", " ", "a", " ", "box">>}, EngineConfigs, {TRUE}, {FALSE})
    /\ InitHost({EmptyDocument}, {TRUE}, {"main"}, {TRUE})

NextGui ==
    \/ StartAgentRun
    \/ CancelAgentRun
    \/ SelectArtifact
    \/ ExecuteSelectedMacro
    \/ WorkerCallsRunScript
    \/ RunScriptReturns
    \/ WorkerEmits
    \/ HandleRunResult
    \/ HandleMacroResult
    \/ ThreadQuit
    \/ ThreadFinished
    \/ CleanupWorker
    \/ CleanupMacroWorker

SpecGui == InitGui /\ [][NextGui]_vars

-----------------------------------------------------------------------------
(* Review: runs whose renders are reviewed with every kind of response       *)

\* What complete returns to a review, besides ReviewCompletions: text that
\* is no JSON with and without a phrase asking for views, text of blanks,
\* and a JSON string, which is valid JSON but no object, asking for views.
ParseCompletions ==
    ReviewCompletions \cup
    { [raised |-> FALSE, exc |-> <<>>, response |-> ReviewResponse("text", "missing", None, raw)] :
          raw \in { <<" ", "Need", " ", "Additional", " ", "angles", "\n">>,
                    <<"an", " ", "Extra", " ", "View", " ", "please">>,
                    <<"looks", " ", "fine">>,
                    <<" ", "\n">> } }
    \cup
    { [raised |-> FALSE, exc |-> <<>>,
       response |-> ReviewResponse("nonobject", "missing", None,
                                   <<"\"", "additional", " ", "views", "\"">>)] }

ReviewParsed == ReviewOn(ParseCompletions)

ReviewConfigs ==
    { c \in Configs(MaxIter) :
          c.views # <<>> /\ ~c.request_additional_views_on_failure }

InitReview == InitWith(ReviewConfigs, {FALSE}, {FALSE})

NextReview ==
    \/ StartRun
    \/ Generate
    \/ RunScriptStore
    \/ RunSimulated
    \/ Render
    \/ ReviewParsed
    \/ EndIteration

SpecReview == InitReview /\ [][NextReview]_vars

-----------------------------------------------------------------------------
(* The embedded runtime: a caller that hands macros to run_script of an      *)
(* engine inside a FreeCAD session, on the main thread or on a worker thread *)

\* What the controller owns; the engine touches none of it.
agentVars == << config, requirement, assembly_required, cancelled, errors,
                pending_additional_views, script_history, artifacts, renders,
                contexts, reviews >>

\* The project documents a session can hold when the engine is constructed:
\* none yet, an empty active one, one with an object that is the active
\* document or is not yet, and one whose only object has no label.
Documents ==
    { Document(FALSE, <<>>, NoObject),
      Document(TRUE, <<>>, NoObject),
      Document(TRUE, << Obj("Base", "Base plate") >>,
               [some |-> TRUE, val |-> Obj("Base", "Base plate")]),
      Document(FALSE, << Obj("Base", "Base plate") >>,
               [some |-> TRUE, val |-> Obj("Base", "Base plate")]),
      Document(TRUE, << Obj("Base", "") >>, [some |-> TRUE, val |-> Obj("Base", "")]) }

\* The threads run_script is called on: FreeCAD's main thread or another.
Threads == {"main", "worker"}

\* What exec does with the macros of the embedded caller.
EmbeddedScriptRuns ==
    { ScriptRun("ok", <<"done", "\n">>, <<>>, <<>>, << Obj("Box", "Box") >>),
      ScriptRun("ok", <<>>, <<>>, <<>>, << Obj("Pad", ""), Obj("Hole", "Bore") >>),
      ScriptRun("ok", <<"moved", "\n">>, <<>>, <<>>, <<>>),
      ScriptRun("exception", <<"partial", "\n">>, <<"Value", "Error">>, <<"boom">>,
                << Obj("Sketch", "Profile") >>),
      ScriptRun("exception", <<>>, <<"Runtime", "Error">>, <<>>, <<>>),
      ScriptRun("exit", <<>>, <<"SystemExit">>, <<>>, <<>>) }

\* The macro and the index the embedded caller passes.
EmbeddedScripts == { <<"make", "(", "part", ")">> }

EmbeddedIterations == {1}

CallEmbedded == CallRunScriptOn(EmbeddedScripts, EmbeddedIterations)

EmbeddedRunDirect == RunEmbeddedOn(EmbeddedScriptRuns, RefreshFailures)

\* How Qt invokes _handle, a Python callable connected on the calling
\* thread, when _finished is emitted on the main thread: at once, on the
\* emitting thread, or through the event queue of the calling thread.
Deliveries == {"direct", "queued"}

\* QEventLoop.quit(): it ends a running exec(); exec() clears it on entry, so
\* that on a loop that is not running it has no effect.
quit(state) == IF state = "running" THEN "quit" ELSE state

\* _QtMainThreadExecutor.execute up to the emission of _execute_requested:
\* _handle is connected and the request is queued for the main thread, where
\* the executor lives.
BridgeRequest ==
    /\ pc = "stored"
    /\ select_strategy(embedded_runner, executable) = "execute"
    /\ uses_bridge(caller_thread, qt_executor)
    /\ strategies' = Append(strategies, Dispatch("execute"))
    /\ result_container' = <<>>
    /\ connected' = TRUE
    /\ requests' = Append(requests,
           [dispatch |-> Len(strategies) + 1, script_body |-> script,
            script_path |-> ScriptPath(iteration)])
    /\ pc' = "requested"
    /\ UNCHANGED << agentVars, embedded_runner, executable, files, iteration,
                    script, execution, raised, results, calls, invocations,
                    document, executions, application, sessionVars, posted, loop >>

\* The caller enters loop.exec().
BridgeEnterLoop ==
    /\ pc = "requested"
    /\ loop' = "running"
    /\ pc' = "waiting"
    /\ UNCHANGED << agentVars, embedded_runner, executable, files, iteration,
                    script, execution, raised, results, calls, strategies,
                    invocations, document, executions, application, sessionVars, requests,
                    posted, result_container, connected >>

\* The main thread's event loop takes a request: _run_on_main_thread runs
\* _execute_internal and emits _finished with the result.  A script that
\* leaves _execute_internal by a BaseException leaves the slot as well, and
\* nothing is emitted.
OwnerRun ==
    /\ requests # <<>>
    /\ \E run \in EmbeddedScriptRuns, failure \in RefreshFailures, delivery \in Deliveries :
         LET request == Head(requests)
             out == execute_internal(request.script_body, request.script_path, run,
                                     document, gui, failure)
         IN  /\ document' = out.document
             /\ application' = ensured_application(application, gui)
             /\ executions' = Append(executions, Execution(request.dispatch, "main", failure, out))
             /\ IF out.returned /\ connected /\ delivery = "direct"
                THEN /\ result_container' = Append(result_container, out.result)
                     /\ loop' = quit(loop)
                     /\ UNCHANGED posted
                ELSE IF out.returned /\ connected
                THEN /\ posted' = Append(posted, out.result)
                     /\ UNCHANGED << result_container, loop >>
                ELSE UNCHANGED << posted, result_container, loop >>
    /\ requests' = Tail(requests)
    /\ UNCHANGED << agentVars, embedded_runner, executable, files, iteration,
                    script, execution, raised, results, calls, strategies,
                    invocations, sessionVars, connected, pc >>

\* The caller's loop takes a queued _finished emission: _handle stores the
\* result and quits the loop.
BridgeDeliver ==
    /\ pc = "waiting"
    /\ loop = "running"
    /\ posted # <<>>
    /\ result_container' = Append(result_container, Head(posted))
    /\ posted' = Tail(posted)
    /\ loop' = quit(loop)
    /\ UNCHANGED << agentVars, embedded_runner, executable, files, iteration,
                    script, execution, raised, results, calls, strategies,
                    invocations, document, executions, application, sessionVars, requests,
                    connected, pc >>

\* loop.exec() has returned: _handle is disconnected and execute returns the
\* first result, or raises RuntimeError when there is none.
BridgeReturn ==
    /\ pc = "waiting"
    /\ loop = "quit"
    /\ loop' = "idle"
    /\ connected' = FALSE
    /\ IF result_container = <<>>
       THEN /\ raised' = raised \cup {Call("run_script", iteration)}
            /\ pc' = "raised"
            /\ UNCHANGED << execution, results >>
       ELSE /\ ReturnResult(result_container[1])
            /\ UNCHANGED raised
    /\ UNCHANGED << agentVars, embedded_runner, executable, files, iteration,
                    script, calls, strategies, invocations, document, executions,
                    application, sessionVars, requests, posted, result_container >>

\* The documents a session can have open when the runtime is created: one
\* active document; none; only a GUI document; only a document registered
\* under the project name; both of these; all three.
Applications ==
    PlainApplications \cup
    { Application(NoName, Named("GuiDoc"), {"GuiDoc"}),
      Application(NoName, NoName, {ProjectDocName}),
      Application(NoName, Named("GuiDoc"), {"GuiDoc", ProjectDocName}),
      Application(Named("Unnamed"), Named("GuiDoc"), {"Unnamed", "GuiDoc", ProjectDocName}) }

InitEmbedded ==
    /\ InitRun(Requirements, EngineConfigs, {TRUE}, {FALSE})
    /\ InitHostIn(PlainEnvironments, Applications, Documents, BOOLEAN, Threads, BOOLEAN)

NextEmbedded ==
    \/ CallEmbedded
    \/ EmbeddedRunDirect
    \/ BridgeRequest
    \/ BridgeEnterLoop
    \/ OwnerRun
    \/ BridgeDeliver
    \/ BridgeReturn

SpecEmbedded == InitEmbedded /\ [][NextEmbedded]_vars

-----------------------------------------------------------------------------
(* Refresh: macros run on the main thread while host calls of the refresh   *)
(* fail                                                                      *)

\* The host call of _refresh_gui_view that raises, if any.
AnyRefreshFailure == RefreshFailures \cup {"recompute", "update", "ViewFit"}

RefreshScriptRuns ==
    { ScriptRun("ok", <<"done", "\n">>, <<>>, <<>>, << Obj("Box", "Box") >>),
      ScriptRun("ok", <<>>, <<>>, <<>>, <<>>),
      ScriptRun("exception", <<"partial", "\n">>, <<"Value", "Error">>, <<"boom">>, <<>>) }

RefreshRun == RunEmbeddedOn(RefreshScriptRuns, AnyRefreshFailure)

InitRefresh ==
    /\ InitRun(Requirements, EngineConfigs, {TRUE}, {FALSE})
    /\ InitHost({EmptyDocument, Document(FALSE, <<>>, NoObject)}, BOOLEAN, {"main"}, {FALSE})

NextRefresh ==
    \/ CallEmbedded
    \/ RefreshRun

SpecRefresh == InitRefresh /\ [][NextRefresh]_vars

-----------------------------------------------------------------------------
(* Properties of the feedback protocol and of the loop's control flow *)

\* Some element of the list of strings contains `text`.
SomeContains(strings, text) ==
    \E n \in 1..Len(strings) : IsSubstring(text, strings[n])

\* Iteration k's execution failed and iteration k+1 was started.
FailedThenRetried(k) ==
    /\ k \in 1..Len(results)
    /\ ~results[k].success
    /\ k + 1 <= Len(contexts)

\* C1 as stated: whenever iteration k's execution fails and iteration k+1 is
\* started, previous_errors of the context of iteration k+1 contains the
\* error text of iteration k's result and at least one line of its output
\* log.
C1_FeedbackHasErrorAndALogLine ==
    \A k \in 1..Len(results) :
        FailedThenRetried(k) =>
            /\ SomeContains(contexts[k + 1].previous_errors, results[k].error.val)
            /\ \E n \in 1..Len(results[k].output_log) :
                   SomeContains(contexts[k + 1].previous_errors,
                                results[k].output_log[n])

\* C1 amended: whenever iteration k's execution fails and iteration k+1 is
\* started, previous_errors of the context of iteration k+1 contains the
\* error text of iteration k's result and, when that result's output log is
\* not empty, at least one line of it.
C1_FeedbackHasErrorAndALogLineIfAny ==
    \A k \in 1..Len(results) :
        FailedThenRetried(k) =>
            /\ results[k].error.some
            /\ SomeContains(contexts[k + 1].previous_errors, results[k].error.val)
            /\ results[k].output_log # <<>> =>
                   \E n \in 1..Len(results[k].output_log) :
                       SomeContains(contexts[k + 1].previous_errors,
                                    results[k].output_log[n])

\* A failed first iteration with a non-empty error and a non-empty log has
\* been followed by the generation of the second iteration.
C1_Witness ==
    /\ FailedThenRetried(1)
    /\ results[1].error.val # <<>>
    /\ results[1].output_log # <<>>
    /\ pc = "generated"

\* C2: once the review of iteration k has returned
\* needs_additional_views = true, the context of every later iteration of the
\* run has request_additional_views = true, whatever the config flag and the
\* later executions and reviews.
C2_StickyAdditionalViews ==
    \A k \in 1..Len(reviews) : \A j \in 1..Len(contexts) :
        (k < j /\ reviews[k].needs_additional_views)
            => contexts[j].request_additional_views

\* With the config flag off, iteration 1's review asked for more views,
\* iteration 2's review did not, and iteration 3 was generated.
C2_Witness ==
    /\ ~config.request_additional_views_on_failure
    /\ Len(reviews) >= 2
    /\ reviews[1].needs_additional_views
    /\ ~reviews[2].needs_additional_views
    /\ Len(contexts) >= 3

\* The positions of run at which the next step starts with a checkpoint.
Checkpoints == {"loop_head", "generated", "executed", "rendered", "iteration_end"}

\* C3: a step of run taken at a checkpoint while the cancellation predicate
\* is true raises PipelineCancelledError and starts nothing: no collaborator
\* is called, no file is written, no result is produced and no artifact is
\* appended.  In particular, cancellation that becomes true right after the
\* first generator call leaves the engine uncalled and the report empty.
C3_CancellationStopsNextStep ==
    [][ (pc \in Checkpoints /\ cancelled /\ pc' # pc) =>
            /\ pc' = "cancelled"
            /\ calls' = calls
            /\ files' = files
            /\ results' = results
            /\ artifacts' = artifacts ]_vars

\* run was cancelled right after the first generator call: the generator is
\* the only collaborator that was called and the report is empty.
C3_Witness ==
    /\ pc = "cancelled"
    /\ calls = << Call("generate", 1) >>
    /\ artifacts = <<>>
    /\ files[ScriptPath(1)] = None

\* The last call made for iteration k is a call of its review step.
LastCallIsReviewOf(k) ==
    /\ calls # <<>>
    /\ calls[Len(calls)].iteration = k
    /\ calls[Len(calls)].step \in {"review", "complete", "parse_render_response"}

\* C4: an artifact with success = true is the last artifact of the report;
\* run has returned, report.successful is true, the report is not empty, and
\* the last collaborator call is the review of that very iteration, so that no
\* generator, engine, renderer or review call follows the success.
C4_StopsAtFirstSuccess ==
    /\ \A k \in 1..Len(results) :
          (results[k].success /\ k <= Len(artifacts)) => artifacts[k].success
    /\ \A k \in 1..Len(artifacts) :
          artifacts[k].success =>
              /\ k = Len(artifacts)
              /\ pc = "returned"
              /\ successful(artifacts)
              /\ Len(artifacts) >= 1
              /\ LastCallIsReviewOf(k)
              /\ Len(contexts) = k
              /\ Len(results) = k

\* run returned after a failed first and a successful second iteration.
C4_Witness ==
    /\ pc = "returned"
    /\ Len(artifacts) = 2
    /\ ~artifacts[1].success
    /\ artifacts[2].success

-----------------------------------------------------------------------------
(* Properties of error handling *)

\* The executions that failed among the first n results.
FailedAmong(n) == { k \in 1..n : ~results[k].success }

\* The failed execution of iteration k is in the report and in the running
\* error list.
FailureRecorded(k) ==
    /\ k <= Len(artifacts)
    /\ ~artifacts[k].success
    /\ artifacts[k].error = results[k].error
    /\ k <= Len(errors)
    /\ errors[k] = format_execution_feedback(k, results[k])

Uncaught == {"generate", "run_script", "render"}

\* The steps of run that are not the caller's.
RunStep ==
    \/ StartRun
    \/ Generate
    \/ RunScriptStore
    \/ RunEmbedded
    \/ RunWithFreecad
    \/ RunSimulated
    \/ Render
    \/ Review
    \/ EndIteration

CallsOf(k) == { n \in 1..Len(calls) : calls[n].iteration = k }

\* C7: when the generator's completion raises at iteration k, run has ended
\* with that exception; the generator call is the only call made for
\* iteration k, so neither the engine nor the renderer nor the review was
\* invoked, no file was stored and no artifact or result exists for it.
C7_GenerationFailureSurfaces ==
    \A c \in raised :
        c.step = "generate" =>
            /\ pc = "raised"
            /\ calls[Len(calls)] = c
            /\ \A n \in CallsOf(c.iteration) : calls[n].step = "generate"
            /\ Len(artifacts) = c.iteration - 1
            /\ Len(results) = c.iteration - 1
            /\ Len(script_history) = c.iteration - 1

\* The completion raised at the generation of the second iteration.
C7_Witness ==
    /\ Call("generate", 2) \in raised
    /\ Len(artifacts) = 1

ReviewFailed == <<"Render", "review", "failed:">>

\* C8: when the completion of the review or the handling of its response
\* raises at iteration k, run does not end with that exception: the review
\* has the explanatory feedback and needs_additional_views = false, and the
\* artifact of iteration k is appended with that feedback.  The success flag
\* of every artifact is the one of its execution result.
C8_ReviewFailureIsDowngraded ==
    /\ \A c \in raised :
          c.step \in {"complete", "parse_render_response"} =>
              /\ c.iteration <= Len(reviews)
              /\ ~reviews[c.iteration].needs_additional_views
              /\ SubSeq(reviews[c.iteration].feedback, 1, Len(ReviewFailed)) = ReviewFailed
              /\ Len(reviews[c.iteration].feedback) > Len(ReviewFailed)
              /\ c.iteration <= Len(artifacts)
              /\ artifacts[c.iteration].render_feedback = reviews[c.iteration].feedback
              /\ (c.iteration < Len(contexts) /\ ~contexts[c.iteration].request_additional_views
                  /\ ~config.request_additional_views_on_failure)
                     => ~contexts[c.iteration + 1].request_additional_views
    /\ \A k \in 1..Len(artifacts) : artifacts[k].success = results[k].success
    /\ pc = "raised" => calls[Len(calls)].step \in Uncaught

\* The handling of the review response raised in an iteration whose
\* execution succeeded, and run returned a successful report.
C8_Witness ==
    /\ pc = "returned"
    /\ Call("parse_render_response", 1) \in raised
    /\ results[1].success
    /\ successful(artifacts)

-----------------------------------------------------------------------------
(* Properties of the running error list and of the stored scripts *)

\* C9: for consecutive iterations i and i+1, previous_errors of iteration
\* i+1's context is previous_errors of iteration i's context with exactly one
\* element appended, the feedback block of iteration i; the context of the
\* latest iteration holds the running error list as it was at its start.
C9_ErrorsGrowByOneBlock ==
    /\ \A i \in 1..(Len(contexts) - 1) :
          contexts[i + 1].previous_errors =
              Append(contexts[i].previous_errors,
                     format_execution_feedback(i, results[i]))
    /\ \A i \in 1..Len(contexts) :
          /\ Len(contexts[i].previous_errors) = i - 1
          /\ contexts[i].previous_errors = SubSeq(errors, 1, i - 1)

\* The third iteration was generated with two feedback blocks.
C9_Witness ==
    /\ Len(contexts) >= 3
    /\ Len(contexts[3].previous_errors) = 2
    /\ contexts[3].previous_errors[1] # contexts[3].previous_errors[2]

\* C10: when run_script(script_body, i) is about to execute, and at any time
\* after, iteration_i.py holds script_body; every result is returned with
\* script_path iteration_i.py, under each strategy and whether it succeeded
\* or failed; the script file of every artifact holds its script_body.
C10_ScriptStoredBeforeExecution ==
    /\ pc \in {"stored", "executed", "rendered"} =>
          files[ScriptPath(iteration)] = Some(script)
    /\ \A n \in 1..Len(calls) :
          calls[n].step = "run_script" =>
              files[ScriptPath(calls[n].iteration)] =
                  Some(script_history[calls[n].iteration])
    /\ \A k \in 1..Len(results) : results[k].script_path = ScriptPath(k)
    /\ \A k \in 1..Len(artifacts) :
          /\ artifacts[k].script_path = ScriptPath(k)
          /\ files[artifacts[k].script_path] = Some(artifacts[k].script_body)

\* The second execution failed, and the two script files hold the two
\* different bodies that were generated.
C10_Witness ==
    /\ pc = "executed"
    /\ iteration = 2
    /\ ~execution.success
    /\ files[ScriptPath(1)] # files[ScriptPath(2)]
    /\ files[ScriptPath(2)] = Some(script)

-----------------------------------------------------------------------------
(* Properties of the execution engine *)

\* The run_script calls made so far.
RunScriptCalls == { n \in 1..Len(calls) : calls[n].step = "run_script" }

\* C11: run_script hands the script to the embedded runtime whenever the
\* engine has one, otherwise to the FreeCAD process whenever it has an
\* executable, otherwise to the simulation; each call that got past storing
\* the macro has dispatched to exactly one of the three, so there are never
\* more results than dispatches; the result of a call that chose the
\* simulation is the simulation's; and with neither a runtime nor an
\* executable the simulation can always be taken.
C11_OrderedStrategyProbe ==
    /\ Len(strategies) = Cardinality(RunScriptCalls) - (IF pc = "stored" THEN 1 ELSE 0)
    /\ Len(results) <= Len(strategies)
    /\ \A k \in 1..Len(strategies) :
         LET d == strategies[k]
         IN  /\ d.embedded => d.method = "execute"
             /\ ~d.embedded /\ d.executable => d.method = "run_with_freecad"
             /\ ~d.embedded /\ ~d.executable => d.method = "simulate_execution"
             /\ d.method = "simulate_execution" /\ k <= Len(results)
                    => results[k] = simulate_execution(d.script_body, d.script_path)
    /\ pc = "stored" /\ ~embedded_runner /\ ~executable => ENABLED RunSimulated

\* An engine that has both a runtime and an executable has returned the
\* result of the embedded runtime.
C11_Witness ==
    \E k \in 1..Len(results) :
        /\ strategies[k].embedded
        /\ strategies[k].executable
        /\ strategies[k].method = "execute"

\* The dispatches that went to the simulation and have returned.
Simulated == { k \in 1..Len(results) : strategies[k].method = "simulate_execution" }

SuccessMarker == <<"finished", "successfully">>

\* C12: a simulated execution fails exactly when the script body contains
\* the "raise" sentinel; when it succeeds its log has at least two lines, one
\* of them the [simulated] line that reports the successful finish; and two
\* simulated executions of the same body under the same iteration index have
\* the same verdict.
C12_SimulationVerdictFromBody ==
    \A k \in Simulated :
        LET d == strategies[k]
            r == results[k]
        IN  /\ ~r.success <=> IsSubstring(RaiseSentinel, d.script_body)
            /\ r.success =>
                 /\ Len(r.output_log) >= 2
                 /\ \E n \in 1..Len(r.output_log) :
                        /\ Head(r.output_log[n]) = "[simulated]"
                        /\ IsSubstring(SuccessMarker, r.output_log[n])
            /\ \A j \in Simulated :
                 /\ strategies[j].script_body = d.script_body
                 /\ strategies[j].script_path = d.script_path
                 => results[j].success = r.success

\* The same body with the sentinel has been simulated twice under one index.
C12_Witness ==
    \E j, k \in Simulated :
        /\ j < k
        /\ strategies[j].script_body = strategies[k].script_body
        /\ strategies[j].script_path = strategies[k].script_path
        /\ ~results[k].success

\* The subprocess.run calls that ended as `kind` with exit code `code`.
Invoked(kind, codes) ==
    { n \in 1..Len(invocations) :
        /\ invocations[n].run.kind = kind
        /\ invocations[n].run.returncode \in codes }

\* The result run_script returned for the n-th subprocess.run call.
ResultOf(n) == results[invocations[n].dispatch]

\* The lines of the two captured streams, standard output first.
StreamLines(run) == split_lines(run.stdout) \o split_lines(run.stderr)

HasTraceback(log_lines) == IsSubstring(TracebackMarker, Join(log_lines))

HasGenericMarker(log_lines) ==
    \E k \in 1..Len(ErrorMarkers) : IsSubstring(ErrorMarkers[k], Join(log_lines))

\* C13: when the FreeCAD process exits with code 0 the returned log begins
\* with the lines of the process's two streams, and it is scanned: if it
\* contains "Traceback" the result is a failure whose error mentions a
\* traceback and names no generic marker, whichever generic markers the log
\* holds as well; if it contains a generic marker the result is a failure;
\* if it contains neither the result is a success without error.
C13_ZeroExitIsScanned ==
    \A n \in Invoked("completed", {0}) :
        LET r == ResultOf(n)
            streams == StreamLines(invocations[n].run)
        IN  /\ Len(streams) <= Len(r.output_log)
            /\ SubSeq(r.output_log, 1, Len(streams)) = streams
            /\ HasTraceback(r.output_log) =>
                 /\ ~r.success
                 /\ r.error.some
                 /\ IsSubstring(<<"traceback">>, r.error.val)
                 /\ \A k \in 1..Len(ErrorMarkers) :
                        ~IsSubstring(ErrorMarkers[k], r.error.val)
            /\ HasGenericMarker(r.output_log) => ~r.success /\ r.error.some
            /\ ~HasTraceback(r.output_log) /\ ~HasGenericMarker(r.output_log)
                   => r.success /\ ~r.error.some

\* A process has exited with code 0 and left both "Traceback" and a generic
\* marker in its output, and another has exited with code 0 and left no
\* marker.
C13_Witness ==
    /\ \E n \in Invoked("completed", {0}) :
          HasTraceback(ResultOf(n).output_log) /\ HasGenericMarker(ResultOf(n).output_log)
    /\ \E n \in Invoked("completed", {0}) :
          ResultOf(n).success /\ ResultOf(n).output_log # <<>>

\* The exit codes other than 0 that the processes of the model end with.
NonZero == { run.returncode : run \in EngineProcessRuns } \ {0}

\* C14: when the FreeCAD process exits with a code other than 0 the result
\* is a failure with an error, whatever the output holds, and its log is the
\* lines of standard output, then those of standard error, then those of the
\* log file: exactly the file the process wrote when it wrote one.
C14_NonZeroExitFails ==
    \A n \in Invoked("completed", NonZero) :
        LET r == ResultOf(n)
            run == invocations[n].run
            streams == StreamLines(run)
        IN  /\ ~r.success
            /\ r.error.some
            /\ Len(streams) <= Len(r.output_log)
            /\ SubSeq(r.output_log, 1, Len(streams)) = streams
            /\ run.logfile.some =>
                   r.output_log = streams \o splitlines(read_text(run.logfile.val))

\* A process has exited with a code other than 0 after writing to both
\* streams and to the log file, none of which holds a marker.
C14_Witness ==
    \E n \in Invoked("completed", NonZero) :
        LET run == invocations[n].run
        IN  /\ Truthy(run.stdout) /\ Truthy(run.stderr) /\ Truthy(run.logfile)
            /\ ~HasTraceback(ResultOf(n).output_log)
            /\ ~HasGenericMarker(ResultOf(n).output_log)
            /\ Len(ResultOf(n).output_log) > Len(StreamLines(run))

\* Every line the process of `run` wrote, to a stream or to the log file.
ProcessLines(run) ==
    LET all == StreamLines(run)
               \o (IF run.logfile.some THEN splitlines(read_text(run.logfile.val)) ELSE <<>>)
    IN  { all[k] : k \in 1..Len(all) }

\* C15: a subprocess.run call that times out makes run_script return, not
\* raise: the result is a failure whose error says that the execution timed
\* out, its log holds no line the process wrote, and the engine still has
\* its executable.
C15_TimeoutReturnsFailure ==
    [][ /\ Len(invocations') = Len(invocations) + 1
        /\ invocations'[Len(invocations')].run.kind = "timeout"
        => /\ pc' = "executed"
           /\ results' = Append(results, execution')
           /\ ~execution'.success
           /\ execution'.error.some
           /\ IsSubstring(<<"timed", "out">>, execution'.error.val)
           /\ \A k \in 1..Len(execution'.output_log) :
                  execution'.output_log[k]
                      \notin ProcessLines(invocations'[Len(invocations')].run)
           /\ executable' ]_vars

\* A process that had written output has timed out, and the next call has
\* run the executable again.
C15_Witness ==
    \E n \in Invoked("timeout", {0}) :
        /\ ProcessLines(invocations[n].run) # {}
        /\ n < Len(invocations)

\* C16: when subprocess.run finds no executable the engine clears its
\* executable and the call returns the simulation of the stored macro; it is
\* the last subprocess.run call of the engine, and every later call goes to
\* the simulation.
C16_MissingExecutableFallsBack ==
    \A n \in Invoked("notfound", {0}) :
        LET d == invocations[n].dispatch
        IN  /\ ~executable
            /\ n = Len(invocations)
            /\ results[d] = simulate_execution(read_text(strategies[d].script_body),
                                               strategies[d].script_path)
            /\ \A k \in (d + 1)..Len(strategies) :
                   strategies[k].method = "simulate_execution"

\* The executable was missing at one call, and a later call has returned.
C16_Witness ==
    \E n \in Invoked("notfound", {0}) : invocations[n].dispatch < Len(results)

-----------------------------------------------------------------------------
(* Properties of the embedded runtime *)

\* The _execute_internal runs that produced a result.
Returned == { n \in 1..Len(executions) : executions[n].returned }

\* The objects of the document an execution left whose names are not in the
\* dict captured before it, in document order.
NewObjects(e) ==
    LET all == IF e.document.active_object.some
                  /\ \A k \in 1..Len(e.document.objects) :
                         e.document.objects[k].Name # e.document.active_object.val.Name
               THEN Append(e.document.objects, e.document.active_object.val)
               ELSE e.document.objects
    IN  SelectSeq(all, LAMBDA obj : obj.Name \notin Names(e.before))

\* How an object is reported: by its Label as it is, or by `label or name`.
Reported(obj, by_label) == IF by_label THEN obj.Label ELSE label_or_name(obj)

\* The affected objects of an execution under either way of reporting: the
\* new objects if there are any, otherwise the active object if there is one.
AffectedAs(e, by_label) ==
    IF NewObjects(e) # <<>>
    THEN [k \in 1..Len(NewObjects(e)) |-> Reported(NewObjects(e)[k], by_label)]
    ELSE IF e.document.active_object.some
    THEN << Reported(e.document.active_object.val, by_label) >>
    ELSE <<>>

\* C17, as stated: the affected objects of an embedded execution are the
\* labels of the objects that are new since the capture before it; with no
\* new object, the label of the active object; otherwise none.
C17_AffectedAreLabels ==
    \A n \in Returned :
        executions[n].result.affected_objects = AffectedAs(executions[n], TRUE)

\* C17, amended: the affected objects of an embedded execution are the new
\* objects in document order, each by its label, or by its name when its
\* label is empty; with no new object, the active object, by its label or by
\* its name when its label is empty; otherwise none.
C17_AffectedAreLabelsOrNames ==
    \A n \in Returned :
        executions[n].result.affected_objects = AffectedAs(executions[n], FALSE)

\* One execution has added two objects, the first of them without a label,
\* and a later one has added none and reported the active object.
C17_Witness ==
    \E m, n \in Returned :
        /\ m < n
        /\ Len(NewObjects(executions[m])) = 2
        /\ NewObjects(executions[m])[1].Label = ""
        /\ executions[m].result.affected_objects[1] = NewObjects(executions[m])[1].Name
        /\ NewObjects(executions[n]) = <<>>
        /\ Len(executions[n].result.affected_objects) = 1

\* Whether an execution made the host call `api` after exec.
Attempted(e, api) == \E k \in 1..Len(e.calls) : e.calls[k] = api

\* C18: every embedded execution that returns a result, whether the script
\* succeeded or raised, has first attempted a recompute of the active
\* document and, in a session with a GUI, fitAll, updateGui and, unless
\* updateGui raised, the ViewFit message.
C18_RefreshAfterEveryExecution ==
    \A n \in Returned :
        LET e == executions[n]
        IN  /\ Attempted(e, "recompute")
            /\ gui => /\ Attempted(e, "fitAll")
                      /\ Attempted(e, "updateGui")
                      /\ e.failure # "updateGui" => Attempted(e, "ViewFit")

\* The _execute_internal runs made for the dispatch d.
RunsFor(d) == { n \in 1..Len(executions) : executions[n].dispatch = d }

\* C19: when run_script is called off the main thread on a runtime with a Qt
\* bridge, _execute_internal runs at most once for each call and only on the
\* main thread, and a call that has returned has returned the result of its
\* one run, which the main thread had produced by then.
C19_BridgedRunsOnceOnMainThread ==
    caller_thread # "main" /\ qt_executor =>
        \A d \in 1..Len(strategies) :
            /\ Cardinality(RunsFor(d)) <= 1
            /\ \A n \in RunsFor(d) : executions[n].thread = "main"
            /\ d <= Len(results) =>
                   \E n \in RunsFor(d) :
                       /\ executions[n].returned
                       /\ results[d] = executions[n].result

\* Two calls made on a worker thread have returned through the bridge.
C19_Witness ==
    /\ caller_thread = "worker"
    /\ qt_executor
    /\ Len(results) = 2
    /\ pc = "executed"

-----------------------------------------------------------------------------
(* Properties of planning *)

\* C20: every generation context of a run carries the same requires_assembly
\* flag, which is true exactly when the requirement, its letters taken in
\* lower case, contains "assembly", "assemblies" or the Russian stem; so it is
\* true in every context when the requirement contains "assembly" in any
\* letter case.
C20_AssemblyClassifiedOncePerRun ==
    \A k \in 1..Len(contexts) :
        /\ contexts[k].requires_assembly = contexts[1].requires_assembly
        /\ contexts[k].requires_assembly
               <=> \E keyword \in AssemblyKeywords :
                       IsSubstring(keyword, lower(requirement))
        /\ IsSubstring(<<"a", "s", "s", "e", "m", "b", "l", "y">>, lower(requirement))
               => contexts[k].requires_assembly

\* A run over a requirement that spells "assembly" with capital letters has
\* built two generation contexts.
C20_Witness ==
    /\ IsSubstring(<<"a", "s", "s", "e", "m", "b", "l", "y">>, lower(requirement))
    /\ ~IsSubstring(<<"a", "s", "s", "e", "m", "b", "l", "y">>, requirement)
    /\ Len(contexts) >= 2
    /\ contexts[2].requires_assembly

\* C21: when the configured path does not exist and the FREECAD_EXECUTABLE
\* variable names an existing executable, the engine's cached executable is
\* the path of the variable.
C21_EnvVarNamesExecutable ==
    ( /\ Len(strategies) = 0
      /\ ~environment.exists
      /\ environment.FREECAD_EXECUTABLE.some
      /\ environment.variable_exists )
        => /\ executable
           /\ discover_executable(environment) = environment.FREECAD_EXECUTABLE

\* An engine constructed with a missing configured path while the variable
\* names an existing executable has made its first strategy choice.
C21_Witness ==
    /\ Len(strategies) > 0
    /\ ~environment.exists
    /\ environment.FREECAD_EXECUTABLE.some
    /\ environment.variable_exists

\* C22: a completion whose first request is answered with HTTP 429 sleeps
\* at least the Retry-After delay, issues the request a second time, and
\* returns the content of a successful second attempt instead of raising.
C22_RetriesOnRateLimit ==
    \A n \in 1..Len(completions) :
        LET c == completions[n]
        IN  ( /\ c.server[1].status = 429
              /\ c.server[1].retry_after.some
              /\ read_response(c.server[2]).raised = "" )
                => /\ c.attempts = 2
                   /\ c.sleeps # <<>>
                   /\ c.sleeps[1] >= c.server[1].retry_after.val
                   /\ c.raised = ""
                   /\ c.content = read_response(c.server[2]).content

\* A completion has finished whose first request was answered with 429 and
\* a Retry-After header while a second request would have succeeded.
C22_Witness ==
    \E n \in 1..Len(completions) :
        /\ completions[n].server[1].status = 429
        /\ completions[n].server[1].retry_after.some
        /\ read_response(completions[n].server[2]).raised = ""

\* The execution added by the step, if the step runs a script in the
\* embedded strategy.
Executes == Len(executions') = Len(executions) + 1

\* C23: before a script runs in the embedded strategy the project document is
\* the host's active document, else the GUI's active document, else the
\* document registered under the project name, else a newly created one; a
\* document is created only when no earlier source yields one; afterwards the
\* chosen document is FreeCAD.ActiveDocument and setActiveDocument was called
\* with its name.
C23_ProjectDocumentPrecedence ==
    [][ Executes =>
          LET host == application.ActiveDocument
              from_gui == IF gui THEN application.gui_document ELSE NoName
              registered == application.project_doc_name \in application.documents
              chosen == IF host.some THEN host.val
                        ELSE IF from_gui.some THEN from_gui.val
                        ELSE application.project_doc_name
              created == ~host.some /\ ~from_gui.some /\ ~registered
          IN  /\ application'.ActiveDocument = Named(chosen)
              /\ application'.set_active = Append(application.set_active, chosen)
              /\ application'.new_documents =
                     IF created THEN Append(application.new_documents, chosen)
                     ELSE application.new_documents
              /\ chosen \in application'.documents ]_vars

\* A script has run in a session that had a GUI document and a document
\* registered under the project name but no active document: the GUI's
\* document was chosen and none was created.
C23_Witness ==
    /\ Len(executions) > 0
    /\ application.set_active[1] = "GuiDoc"
    /\ ProjectDocName \in application.documents
    /\ application.new_documents = <<>>

\* The steps run itself calls in an iteration, in the order of the loop body.
ControllerSteps == << "generate", "run_script", "render", "review" >>

\* The controller steps recorded for iteration i, in the order they were made.
StepsOf(i) ==
    LET made == SelectSeq(calls, LAMBDA c : /\ c.iteration = i
                                            /\ \E k \in 1..Len(ControllerSteps) :
                                                   c.step = ControllerSteps[k])
    IN  [k \in 1..Len(made) |-> made[k].step]

\* C24: every iteration whose artifact is appended has called generate,
\* run_script, render and review once each in that order, whether or not its
\* execution succeeded; the steps of an unfinished iteration are a prefix of
\* that order; and no step of a later iteration is recorded before the
\* artifact of the iteration before it.
C24_StepsInOrderOncePerIteration ==
    /\ \A n \in 1..Len(artifacts) : StepsOf(artifacts[n].iteration) = ControllerSteps
    /\ \A i \in 1..iteration :
           /\ Len(StepsOf(i)) <= Len(ControllerSteps)
           /\ StepsOf(i) = SubSeq(ControllerSteps, 1, Len(StepsOf(i)))
    /\ \A k \in 1..Len(calls) :
           /\ calls[k].iteration >= 1
           /\ Len(artifacts) >= calls[k].iteration - 1
           /\ \A l \in k..Len(calls) : calls[k].iteration <= calls[l].iteration

\* A second iteration is complete after a first whose execution failed.
C24_Witness ==
    /\ Len(artifacts) = 2
    /\ ~artifacts[1].success
    /\ StepsOf(1) = ControllerSteps
    /\ StepsOf(2) = ControllerSteps

\* An earlier review of the run asked for additional views before
\* iteration n.
AskedBefore(n) == \E m \in 1..(n - 1) : m <= Len(reviews) /\ reviews[m].needs_additional_views

\* C25: the context of every iteration asks for additional views exactly
\* when the configuration flag is set and the running error list is not
\* empty, or an earlier review asked for them; never at iteration 1; and with
\* the flag off only after an earlier review asked.
C25_RequestAdditionalViews ==
    \A n \in 1..Len(contexts) :
        /\ contexts[n].request_additional_views =
               ( (config.request_additional_views_on_failure
                    /\ contexts[n].previous_errors # <<>>)
                 \/ AskedBefore(n) )
        /\ n = 1 => ~contexts[n].request_additional_views
        /\ (~config.request_additional_views_on_failure
               /\ contexts[n].request_additional_views) => AskedBefore(n)

\* With the flag off, the context of a second iteration asks for additional
\* views because the first review did.
C25_Witness ==
    /\ ~config.request_additional_views_on_failure
    /\ Len(contexts) = 2
    /\ contexts[2].request_additional_views
    /\ reviews[1].needs_additional_views

\* The places of run, in the order a run passes them within an iteration.
Places ==
    << "start", "loop_head", "generated", "stored", "executed", "rendered",
       "iteration_end" >>

\* How far the run has come: iterations first, then the place within the
\* iteration; a run that has returned or raised has come all the way.
Progress ==
    IF \E k \in 1..Len(Places) : Places[k] = pc
    THEN iteration * (Len(Places) + 1) + (CHOOSE k \in 1..Len(Places) : Places[k] = pc)
    ELSE (config.max_iterations + 2) * (Len(Places) + 1)

\* The generator's calls so far.
GeneratorCalls == SelectSeq(calls, LAMBDA c : c.step = "generate")

\* C26: a run that returns after executions that all failed has made exactly
\* max_iterations iterations, and its report has max_iterations artifacts
\* and is not successful; the generator is never called more than
\* max_iterations times; and every step of run either moves the run forward
\* or only changes what the cancellation predicate answers, so a run whose
\* collaborators return ends.
C26_ExhaustsAfterMaxIterations ==
    /\ [] ( /\ Len(GeneratorCalls) <= config.max_iterations
            /\ ( pc = "returned" /\ \A n \in 1..Len(artifacts) : ~artifacts[n].success )
                   => /\ Len(artifacts) = config.max_iterations
                      /\ Len(GeneratorCalls) = config.max_iterations
                      /\ ~successful(artifacts) )
    /\ [][ Progress' > Progress \/ (Progress' = Progress /\ cancelled' # cancelled) ]_vars

\* A run of two iterations whose executions both failed has returned.
C26_Witness ==
    /\ pc = "returned"
    /\ config.max_iterations = 2
    /\ Len(artifacts) = 2
    /\ ~artifacts[1].success /\ ~artifacts[2].success

\* C27: the report's artifacts carry the iteration indices 1, 2, ..., n in
\* order with n <= max_iterations; only the last artifact can have succeeded,
\* so the report is successful exactly when its last artifact succeeded; and
\* a step either leaves the artifacts alone or appends one to them.
C27_ArtifactsAppendOnlyInOrder ==
    /\ [] ( /\ Len(artifacts) <= config.max_iterations
            /\ \A n \in 1..Len(artifacts) :
                   /\ artifacts[n].iteration = n
                   /\ artifacts[n].success => n = Len(artifacts)
            /\ successful(artifacts) =
                   (artifacts # <<>> /\ artifacts[Len(artifacts)].success) )
    /\ [][ \/ artifacts' = artifacts
           \/ /\ Len(artifacts') = Len(artifacts) + 1
              /\ SubSeq(artifacts', 1, Len(artifacts)) = artifacts ]_vars

\* A report of three artifacts of which only the last succeeded.
C27_Witness ==
    /\ Len(artifacts) = 3
    /\ ~artifacts[1].success
    /\ ~artifacts[2].success
    /\ artifacts[3].success
    /\ successful(artifacts)

\* The lines of the feedback block kept for the k-th failed iteration.
BlockLines(k) == splitlines(errors[k])

NoOutputNote == <<"No", "output", "was", "captured", "before", "the", "failure.">>

TruncatedLine(n) == <<"...", "truncated", Num(n), "earlier", "lines", "...">>

\* C28: the feedback block of failed iteration k starts with the line naming
\* iteration k as failed; the error summary, if there is one, is the next
\* line; the block ends with the most recent output lines, at most TailLimit
\* of them and in their order; when the log is longer than TailLimit exactly
\* one line of the block states the number of omitted lines and it stands
\* right before the kept lines; and the note that nothing was captured is in
\* the block exactly when there is neither an error nor output.
C28_FeedbackBlockShape ==
    \A k \in 1..Len(errors) :
        LET lines == BlockLines(k)
            log == results[k].output_log
            kept == IF Len(log) <= TailLimit THEN Len(log) ELSE TailLimit
            omitted == Len(log) - kept
            has_error == Truthy(results[k].error)
            marks == { j \in 1..Len(lines) : lines[j] = TruncatedLine(omitted) }
        IN  /\ lines[1] = <<"Iteration", Num(k), "FreeCAD", "execution", "failed.">>
            /\ has_error => lines[2] = <<"Error", ":">> \o results[k].error.val
            /\ Len(lines) >= 1 + (IF has_error THEN 1 ELSE 0) + kept
            /\ SubSeq(lines, Len(lines) - kept + 1, Len(lines))
                   = SubSeq(log, Len(log) - kept + 1, Len(log))
            /\ { j \in 1..Len(lines) : \E n \in 1..Len(log) : lines[j] = log[n] }
                   = (Len(lines) - kept + 1)..Len(lines)
            /\ marks = IF omitted > 0 THEN {Len(lines) - kept} ELSE {}
            /\ (\E j \in 1..Len(lines) : lines[j] = NoOutputNote)
                   = (~has_error /\ log = <<>>)

\* A block has been kept for a failure with an error and a log one line
\* longer than the tail limit, and one for a failure without error and
\* output.
C28_Witness ==
    /\ Len(errors) = 2
    /\ Truthy(results[1].error)
    /\ Len(results[1].output_log) = TailLimit + 1
    /\ ~Truthy(results[2].error)
    /\ results[2].output_log = <<>>

\* The step is the review of an iteration for which the renderer returned
\* no render paths.
ReviewsWithoutRenders ==
    /\ pc = "rendered"
    /\ renders = <<>>
    /\ Len(reviews') = Len(reviews) + 1

\* C29: the review of an iteration without render paths returns the fixed
\* rendering-disabled feedback with needs_additional_views = false, calls
\* the LLM collaborator not at all, and leaves the sticky pending flag as it
\* was.
C29_NoRendersNoReviewCall ==
    [][ ReviewsWithoutRenders =>
          /\ reviews'[Len(reviews')] = RenderReview(<<"Rendering", "disabled">>, FALSE)
          /\ calls' = Append(calls, Call("review", iteration))
          /\ \A k \in 1..Len(calls') : calls'[k] # Call("complete", iteration)
          /\ pending_additional_views' = pending_additional_views
          /\ artifacts'[Len(artifacts')].render_feedback = <<"Rendering", "disabled">> ]_vars

\* An iteration without render paths has been reviewed.
C29_Witness ==
    /\ Len(artifacts) >= 1
    /\ artifacts[1].render_paths = <<>>
    /\ Len(reviews) = Len(artifacts)
    /\ \E k \in 1..Len(calls) : calls[k] = Call("review", 1)

\* C30: every response complete returned to a review that does not parse
\* as the two-field structure, valid JSON that is no object included, gives
\* the review of the keyword scan with the trimmed raw text as feedback.
C30_FallbackOnEveryParseFailure ==
    \A n \in 1..Len(responses) :
        responses[n].response.kind # "object" =>
            reviews[responses[n].iteration] = keyword_review(responses[n].response.raw)

\* A review has been given a response that is valid JSON but no object.
C30_Witness ==
    \E n \in 1..Len(responses) :
        /\ responses[n].response.kind = "nonobject"
        /\ Len(reviews) >= responses[n].iteration

\* The script of execution n raised: an Exception, or a BaseException that
\* is none (SystemExit).
Raised(n) == executions[n].run.kind \in {"exception", "exit"}

\* The result of execution n is the failure made from what the script did:
\* the message as error, and the output before the exception followed by
\* stack trace lines that end with the exception's own line.
FailureFromException(n) ==
    LET e == executions[n]
        before == splitlines(e.run.stdout)
        log == e.result.output_log
    IN  /\ e.returned
        /\ ~e.result.success
        /\ e.result.error = Some(e.run.message)
        /\ Len(log) >= Len(before) + 2
        /\ SubSeq(log, 1, Len(before)) = before
        /\ log[Len(before) + 1] = <<"Traceback", "(most", "recent", "call", "last):">>
        /\ SubSeq(log[Len(log)], 1, Len(e.run.exc_type)) = e.run.exc_type

C32_RefreshFailureKeepsResult ==
    \A n \in 1..Len(executions) :
        executions[n].run.kind = "ok" =>
            /\ executions[n].returned
            /\ executions[n].result.success
            /\ executions[n].result.error = None
            /\ executions[n].result.output_log = splitlines(executions[n].run.stdout)

\* A script that printed has run without exception in a session with a GUI
\* while updateGui failed, and another while recompute failed.
C32_Witness ==
    /\ gui
    /\ \E n \in 1..Len(executions) :
           /\ executions[n].run.kind = "ok"
           /\ executions[n].run.stdout # <<>>
           /\ executions[n].failure = "updateGui"
    /\ \E n \in 1..Len(executions) :
           /\ executions[n].run.kind = "ok"
           /\ executions[n].failure = "recompute"

\* The positions of `entry` among the entries of a prompt.
PositionsOf(entry, lines) == { j \in 1..Len(lines) : lines[j] = entry }

\* C33: for a script history of length n >= 1 the prompt shows exactly the
\* most recent min(n, HistoryLimit) scripts, in order, each under the label
\* of its position in the whole history; the history block stands before
\* the previous-errors block, which lists the accumulated errors as they
\* are and in their order.
C33_PromptHistoryWindow ==
    \A c \in 1..Len(contexts) :
        LET history == contexts[c].script_history
            errs == contexts[c].previous_errors
            lines == prompt_lines(contexts[c])
            n == Len(history)
            shown == IF n <= HistoryLimit THEN n ELSE HistoryLimit
            heads == PositionsOf(<<"=== PREVIOUS PYTHON CONTEXT ===">>, lines)
            labels == { j \in 1..Len(lines) :
                          /\ Len(lines[j]) = 4
                          /\ lines[j][1] = "[" /\ lines[j][2] = "Script" }
        IN  n >= 1 =>
              /\ Cardinality(heads) = 1
              /\ \A h \in heads :
                   /\ labels = { h + 3 * (k - 1) + 1 : k \in 1..shown }
                   /\ \A k \in 1..shown :
                        /\ lines[h + 3 * (k - 1) + 1] = <<"[", "Script", Num(n - shown + k), "]">>
                        /\ lines[h + 3 * (k - 1) + 2] =
                               (IF strip(history[n - shown + k]) # <<>>
                                THEN strip(history[n - shown + k])
                                ELSE <<"# Empty script recorded">>)
                   /\ errs # <<>> =>
                        \E e \in PositionsOf(<<"=== PREVIOUS ERRORS ===">>, lines) :
                            /\ e > h + 3 * shown - 1
                            /\ SubSeq(lines, e + 1, e + Len(errs)) = errs
                            /\ IsSubstring(Join(errs), build_user_prompt(contexts[c]))

\* The generator has been given a history of more scripts than the window
\* holds, a blank script among those shown, and accumulated errors.
C33_Witness ==
    \E c \in 1..Len(contexts) :
        /\ Len(contexts[c].script_history) > HistoryLimit
        /\ contexts[c].script_history[Len(contexts[c].script_history)] = <<" ", "\n">>
        /\ contexts[c].script_history[1] # contexts[c].script_history[2]
        /\ Len(contexts[c].previous_errors) > HistoryLimit

\* The caller is inside loop.exec() and nothing is left that could end it:
\* no request waits for the main thread and no emission of _finished waits
\* for the caller's loop.
BlockedForever ==
    /\ pc = "waiting"
    /\ loop = "running"
    /\ requests = <<>>
    /\ posted = <<>>

\* C34: a caller that hands an execution to the main thread is never left
\* blocked in its event loop: while it waits, the request is still to be
\* run or its completion is still to be delivered, whatever the order of
\* the main thread's execution and the caller's entry into the loop.
C34_CompletionNeverLost == ~BlockedForever

\* The main thread finished and _handle stored the result before the
\* caller entered its loop; the caller now waits in a loop nothing quits.
C34_Witness ==
    /\ BlockedForever
    /\ result_container # <<>>

\* C35: after the artifact of the last permitted iteration has been
\* appended following a failed execution there is no next step: whatever
\* the cancellation predicate answers from then on, run returns the report
\* with max_iterations artifacts and does not raise the cancellation signal.
C35_NoCancellationAfterLastArtifact ==
    [][ ( /\ pc = "iteration_end"
          /\ iteration = config.max_iterations
          /\ pc' # pc )
            => /\ pc' = "returned"
               /\ Len(artifacts') = config.max_iterations ]_vars

\* The run was cancelled although its report holds the artifacts of all
\* permitted iterations, the last of them failed.
C35_Witness ==
    /\ pc = "cancelled"
    /\ config.max_iterations >= 1
    /\ Len(artifacts) = config.max_iterations
    /\ ~artifacts[Len(artifacts)].success

\* C36: every result run_script returns has success = true exactly when
\* its error is None, and a failed result carries a non-empty error, so
\* that last_error of a report whose last artifact took over a failed
\* result is the error of that result.  An artifact takes its error from
\* the result, so the results stand for the artifacts here.
C36_FailureCarriesError ==
    \A n \in 1..Len(results) :
        /\ results[n].success <=> results[n].error = None
        /\ ~results[n].success =>
              /\ results[n].error.val # <<>>
              /\ last_error(SubSeq(results, 1, n)) = results[n].error

\* A failed execution returned an empty error after an execution that
\* failed with a message: last_error names the earlier one.
C36_Witness ==
    /\ Len(results) = 2
    /\ ~results[1].success /\ results[1].error.val # <<>>
    /\ ~results[2].success /\ results[2].error = Some(<<>>)
    /\ last_error(results) = results[1].error

\* C37: when an embedded execution created objects, no object that was in
\* the project document before the call is among the affected objects it
\* reports, also when that document was not the active document when the
\* call started.
C37_ExistingObjectsNotReportedAsNew ==
    [][ Len(executions') = Len(executions) + 1 =>
          LET e == executions'[Len(executions')]
              existing == { document.objects[k].Name : k \in 1..Len(document.objects) }
              created == SelectSeq(e.document.objects,
                                   LAMBDA obj : obj.Name \notin existing)
          IN  (e.returned /\ created # <<>>) =>
                 \A k \in 1..Len(document.objects) :
                     \A j \in 1..Len(e.result.affected_objects) :
                         e.result.affected_objects[j] # label_or_name(document.objects[k]) ]_vars

\* An execution that started without an active document reports the base
\* plate, which the project document already held, next to the box the
\* script created.
C37_Witness ==
    \E n \in 1..Len(executions) :
        /\ executions[n].returned
        /\ executions[n].before = <<>>
        /\ executions[n].document.objects = << Obj("Base", "Base plate"), Obj("Box", "Box") >>
        /\ executions[n].result.affected_objects = <<"Base plate", "Box">>

\* The lines the process of `run` produced, as _run_with_freecad orders
\* them: standard output, standard error, then the log file it wrote.
OwnLines(run) ==
    StreamLines(run)
    \o (IF run.logfile.some THEN splitlines(read_text(run.logfile.val)) ELSE <<>>)

\* C38: the log and the verdict of an out-of-process execution come from
\* the process that the call started alone: the log is the lines of that
\* process, and with exit code 0 the result succeeds exactly when those
\* lines hold no error marker, whatever log file an earlier execution with
\* the same index left in the workspace.
C38_ResultFromOwnProcessOnly ==
    \A n \in Invoked("completed", {0} \cup NonZero) :
        LET run == invocations[n].run
        IN  /\ ResultOf(n).output_log = OwnLines(run)
            /\ run.returncode = 0 =>
                 ( ResultOf(n).success <=>
                     ~HasTraceback(OwnLines(run)) /\ ~HasGenericMarker(OwnLines(run)) )

\* The second execution with an index wrote no log file and no marker and
\* exited with code 0, yet it failed on the lines of the log file the first
\* execution with that index had left.
C38_Witness ==
    /\ Len(invocations) = 2
    /\ invocations[2].run.kind = "completed"
    /\ invocations[2].run.returncode = 0
    /\ ~invocations[2].run.logfile.some
    /\ ~HasTraceback(OwnLines(invocations[2].run))
    /\ ~HasGenericMarker(OwnLines(invocations[2].run))
    /\ invocations[1].run.logfile.some
    /\ ResultOf(1).script_path = ResultOf(2).script_path
    /\ ~ResultOf(2).success
    /\ Len(ResultOf(2).output_log) > Len(OwnLines(invocations[2].run))

\* The worker/thread pairs whose run has not ended yet.
InFlight == { n \in 1..Len(workers) : workers[n].state \in {"started", "run_script"} }

\* C39: the cleanup at the end of an agent run disposes of that run's worker
\* and thread only: the worker and the thread of an agent run are not
\* deleted while that run is in flight, whenever the user starts the next
\* run among the queued result, quit and cleanup events of the one before.
C39_CleanupDisposesOwnRunOnly ==
    \A n \in InFlight :
        workers[n].kind = "agent" =>
            ~workers[n].worker_deleted /\ ~workers[n].thread_deleted

\* The second agent run is inside run_script and its worker and thread have
\* been handed to deleteLater, while those of the first run, whose thread
\* has finished, have not.
C39_Witness ==
    /\ Len(workers) >= 2
    /\ workers[1].kind = "agent" /\ workers[1].state = "finished"
    /\ ~workers[1].worker_deleted /\ ~workers[1].thread_deleted
    /\ workers[2].kind = "agent" /\ workers[2].state = "run_script"
    /\ workers[2].worker_deleted /\ workers[2].thread_deleted

\* The worker/thread pairs with a run_script call in flight.
InRunScript == { n \in 1..Len(workers) : workers[n].state = "run_script" }

\* C40: over the agent worker and the macro worker at most one run_script
\* call is in flight at any time, so no two calls write one script file of
\* the workspace at once.
C40_OneRunScriptInFlight ==
    /\ Cardinality(InRunScript) <= 1
    /\ \A n, m \in InRunScript : n # m => workers[n].iteration # workers[m].iteration

\* The macro worker runs the macro of iteration 1 while the agent worker of
\* a run started meanwhile is in run_script for its iteration 1.
C40_Witness ==
    \E n, m \in InRunScript :
        /\ workers[n].kind = "macro"
        /\ workers[m].kind = "agent"
        /\ workers[n].iteration = 1
        /\ workers[m].iteration = 1

====
